---- MODULE Spec2Model ----
(***************************************************************************)
(* A model of zope.password: the password managers of password.py and      *)
(* legacy.py (encodePassword / checkPassword / match), the codecs they      *)
(* are built on, and the registry.  Byte strings are sequences of integers  *)
(* in 0..255, text strings are sequences of code points.                    *)
(***************************************************************************)
EXTENDS Integers, Sequences, FiniteSets, TLC

(***************************************************************************)
(* Python values.  Every value is a record with the same four fields so     *)
(* that any two values can be compared: t is the Python type ("bytes",      *)
(* "str", "bool", "None") or "raise" for a propagated exception; s is the   *)
(* content of a bytes/str value, b of a bool, x the exception class.        *)
(***************************************************************************)
Bytes(s) == [t |-> "bytes", s |-> s, b |-> FALSE, x |-> ""]

Str(s) == [t |-> "str", s |-> s, b |-> FALSE, x |-> ""]

Bool(b) == [t |-> "bool", s |-> <<>>, b |-> b, x |-> ""]

Raise(x) == [t |-> "raise", s |-> <<>>, b |-> FALSE, x |-> x]

None == [t |-> "None", s |-> <<>>, b |-> FALSE, x |-> ""]

IsRaise(v) == v.t = "raise"

IsTrue(v) == v.t = "bool" /\ v.b

IsFalse(v) == v.t = "bool" /\ ~v.b

\* Python's == between two str/bytes values: values of different types are
\* unequal, never an error.
PyEq(a, b) == a.t = b.t /\ a.s = b.s

\* The sequence f with every element computed once: a sequence written as a
\* function [i \in 1..n |-> e] is otherwise recomputed at every access.
Tuple(f) == SubSeq(f, 1, Len(f))

\* bytes.startswith(prefix) / str.startswith(prefix) on the contents.
StartsWith(s, p) == Len(s) >= Len(p) /\ SubSeq(s, 1, Len(p)) = p

\* s[n:] for n >= 0
From(s, n) == SubSeq(s, n + 1, Len(s))

\* s[:n] for n >= 0
Upto(s, n) == SubSeq(s, 1, IF n < Len(s) THEN n ELSE Len(s))

\* The whole of s, however long.
Last_whole(s, n) == s

\* s[-n:] for n > 0
Last(s, n) == IF Len(s) <= n THEN s ELSE SubSeq(s, Len(s) - n + 1, Len(s))

\* s.find(c) + 1 for a single byte c: the 1-based index of the first c, or
\* 0 when c does not occur (find returns -1).
Find1(s, c) ==
    LET at == {i \in 1..Len(s) : s[i] = c}
    IN  IF at = {} THEN 0 ELSE CHOOSE i \in at : \A j \in at : i <= j

Contains(s, c) == \E i \in 1..Len(s) : s[i] = c

(***************************************************************************)
(* The wire-format tags.                                                    *)
(***************************************************************************)
\* b'{SSHA}'
SSHA_prefix == <<123, 83, 83, 72, 65, 125>>

\* b'{SMD5}'
SMD5_prefix == <<123, 83, 77, 68, 53, 125>>

\* b'{MD5}'
MD5_prefix == <<123, 77, 68, 53, 125>>

\* b'{SHA}'
SHA1_prefix == <<123, 83, 72, 65, 125>>

\* b'{SHA1}'
SHA1_legacy_prefix == <<123, 83, 72, 65, 49, 125>>

\* b'{BCRYPT}'
BCRYPT_prefix == <<123, 66, 67, 82, 89, 80, 84, 125>>

\* b'{BCRYPTKDF}'
BCRYPTKDF_prefix == <<123, 66, 67, 82, 89, 80, 84, 75, 68, 70, 125>>

\* '{MYSQL}'
MYSQL_prefix == <<123, 77, 89, 83, 81, 76, 125>>

\* '{CRYPT}'
CRYPT_prefix == <<123, 67, 82, 89, 80, 84, 125>>

(***************************************************************************)
(* codecs.getencoder("utf-8") on one code point and on a text.              *)
(***************************************************************************)
Utf8Char(c) ==
    IF c < 128 THEN <<c>>
    ELSE IF c < 2048 THEN <<192 + (c \div 64), 128 + (c % 64)>>
    ELSE <<224 + (c \div 4096), 128 + ((c \div 64) % 64), 128 + (c % 64)>>

RECURSIVE Utf8(_)
Utf8(s) ==
    IF Len(s) = 0 THEN <<>>
    ELSE IF Len(s) = 1 THEN Utf8Char(s[1])
    ELSE LET h == Len(s) \div 2
         IN  Utf8(SubSeq(s, 1, h)) \o Utf8(SubSeq(s, h + 1, Len(s)))

\* A codec that takes anything: what is not bytes is encoded as the text it
\* holds, None as the empty text.
_encoder_lenient(v) == IF v.t = "bytes" THEN v ELSE Bytes(Utf8(v.s))

\* password.py: _encoder(s).  bytes pass through, text is UTF-8 encoded,
\* anything else (None) makes the codec raise TypeError.
_encoder(v) ==
    IF v.t = "bytes" THEN v
    ELSE IF v.t = "str" THEN Bytes(Utf8(v.s))
    ELSE Raise("TypeError")

\* legacy.py: _encoder(s)[0] with _encoder = getencoder("utf-8"): only text
\* is accepted, utf_8_encode() of a bytes object raises TypeError.
legacy_encoder(v) ==
    IF v.t = "str" THEN Bytes(Utf8(v.s))
    ELSE Raise("TypeError")

\* str.encode('ascii')
EncodeAscii(s) ==
    IF \E i \in 1..Len(s) : s[i] >= 128 THEN Raise("UnicodeEncodeError")
    ELSE Bytes(s)

(***************************************************************************)
(* base64 and hex.                                                          *)
(***************************************************************************)
\* The standard alphabet A-Z a-z 0-9 + /
StdAlpha(i) ==
    IF i < 26 THEN 65 + i
    ELSE IF i < 52 THEN 97 + (i - 26)
    ELSE IF i < 62 THEN 48 + (i - 52)
    ELSE IF i = 62 THEN 43 ELSE 47

\* The URL-safe alphabet: - and _ in place of + and /
UrlAlpha(i) == IF i = 62 THEN 45 ELSE IF i = 63 THEN 95 ELSE StdAlpha(i)

\* bcrypt's alphabet ./A-Za-z0-9
BcryptAlpha(i) ==
    IF i = 0 THEN 46
    ELSE IF i = 1 THEN 47
    ELSE IF i < 28 THEN 65 + (i - 2)
    ELSE IF i < 54 THEN 97 + (i - 28)
    ELSE 48 + (i - 54)

\* Value of a character of the standard alphabet, 64 for any other byte.
StdVal(c) ==
    IF c >= 65 /\ c <= 90 THEN c - 65
    ELSE IF c >= 97 /\ c <= 122 THEN c - 97 + 26
    ELSE IF c >= 48 /\ c <= 57 THEN c - 48 + 52
    ELSE IF c = 43 THEN 62
    ELSE IF c = 47 THEN 63
    ELSE 64

\* The character of value i in the alphabet named a.
Alpha(a, i) ==
    IF a = "urlsafe" THEN UrlAlpha(i)
    ELSE IF a = "bcrypt" THEN BcryptAlpha(i)
    ELSE StdAlpha(i)

\* binascii.b2a_base64 over the alphabet named a: 3 bytes give 4
\* characters, the last group is padded with '='.
B64EncodeWith(a, bs) ==
    LET n == Len(bs)
        alpha(i) == Alpha(a, i)
        byte(k) == IF k <= n THEN bs[k] ELSE 0
    IN  Tuple([i \in 1..(4 * ((n + 2) \div 3)) |->
            LET g  == (i - 1) \div 4
                r  == (i - 1) % 4
                b1 == byte(3 * g + 1)
                b2 == byte(3 * g + 2)
                b3 == byte(3 * g + 3)
            IN  IF r = 0 THEN alpha(b1 \div 4)
                ELSE IF r = 1 THEN alpha((b1 % 4) * 16 + (b2 \div 16))
                ELSE IF r = 2
                     THEN (IF 3 * g + 2 > n THEN 61
                           ELSE alpha((b2 % 16) * 4 + (b3 \div 64)))
                ELSE (IF 3 * g + 3 > n THEN 61 ELSE alpha(b3 % 64))])

standard_b64encode(bs) == B64EncodeWith("standard", bs)

urlsafe_b64encode(bs) == B64EncodeWith("urlsafe", bs)

\* binascii.a2b_base64 in its default, non-strict mode.  Bytes outside the
\* alphabet are skipped.  A '=' ends the input when the group in progress
\* holds three characters, or holds two and a '=' has already followed
\* them; any other '=' is skipped.  Input that runs out inside a group
\* raises binascii.Error.
a2b_base64(s) ==
    LET n         == Len(s)
        isData(j) == StdVal(s[j]) < 64
        nd(i)     == Cardinality({j \in 1..(i - 1) : isData(j)})
        ne(i)     == Cardinality({j \in 1..(i - 1) :
                        /\ s[j] = 61
                        /\ \A h \in (j + 1)..(i - 1) : ~isData(h)})
        stops     == {i \in 1..n :
                        /\ s[i] = 61
                        /\ \/ nd(i) % 4 = 3
                           \/ nd(i) % 4 = 2 /\ ne(i) >= 1}
        end       == IF stops = {} THEN n + 1
                     ELSE CHOOSE i \in stops : \A j \in stops : i <= j
        data      == SelectSeq(Upto(s, end - 1), LAMBDA c : StdVal(c) < 64)
        k         == Len(data)
        val(j)    == StdVal(data[j])
        nout      == 3 * (k \div 4) + (IF k % 4 >= 2 THEN (k % 4) - 1 ELSE 0)
    IN  IF stops = {} /\ k % 4 # 0 THEN Raise("binascii.Error")
        ELSE Bytes(Tuple([i \in 1..nout |->
                 LET g == (i - 1) \div 3
                     r == (i - 1) % 3
                 IN  IF r = 0
                     THEN val(4 * g + 1) * 4 + (val(4 * g + 2) \div 16)
                     ELSE IF r = 1
                     THEN (val(4 * g + 2) % 16) * 16 + (val(4 * g + 3) \div 4)
                     ELSE (val(4 * g + 3) % 4) * 64 + val(4 * g + 4)]))

standard_b64decode(s) == a2b_base64(s)

\* A decoder that does not translate.
urlsafe_b64decode_untranslated(s) == a2b_base64(s)

\* urlsafe_b64decode translates - to + and _ to / and then decodes.
urlsafe_b64decode(s) ==
    a2b_base64(Tuple([i \in 1..Len(s) |->
                   IF s[i] = 45 THEN 43 ELSE IF s[i] = 95 THEN 47 ELSE s[i]]))

\* Value of a hexadecimal digit, 16 for any other byte.
HexVal(c) ==
    IF c >= 48 /\ c <= 57 THEN c - 48
    ELSE IF c >= 97 /\ c <= 102 THEN c - 97 + 10
    ELSE IF c >= 65 /\ c <= 70 THEN c - 65 + 10
    ELSE 16

\* The lowercase hexadecimal digit of a value in 0..15.
HexDigit(v) == IF v < 10 THEN 48 + v ELSE 97 + (v - 10)

\* bytes.hex(), hashlib's hexdigest(): two lowercase digits a byte
hexdigest(bs) ==
    Tuple([i \in 1..(2 * Len(bs)) |->
              IF i % 2 = 1 THEN HexDigit(bs[(i + 1) \div 2] \div 16)
              ELSE HexDigit(bs[i \div 2] % 16)])

\* binascii.a2b_hex: raises binascii.Error on an odd length or a byte that
\* is not a hexadecimal digit.
a2b_hex(s) ==
    IF Len(s) % 2 = 1 \/ \E i \in 1..Len(s) : HexVal(s[i]) = 16
    THEN Raise("binascii.Error")
    ELSE Bytes(Tuple([i \in 1..(Len(s) \div 2) |->
                   HexVal(s[2 * i - 1]) * 16 + HexVal(s[2 * i])]))

(***************************************************************************)
(* The one-way primitives the managers call (hashlib, bcrypt, crypt).  The  *)
(* managers only rely on each being a deterministic function with a fixed   *)
(* output format, so each is modelled by a digest of the right length that  *)
(* keeps every input byte: different inputs of the sizes used here have     *)
(* different digests, as they do for the real primitives.                   *)
(***************************************************************************)
RECURSIVE FoldBytes(_, _, _, _)
FoldBytes(m, j, step, w) ==
    IF j > Len(m) THEN 0
    ELSE (m[j] * w + FoldBytes(m, j + step, step, w + 2)) % 256

\* An n-byte digest of m, keyed by k: byte 1 carries the length, byte i+1
\* carries m[i] plus the odd-weighted bytes n-1, 2(n-1), ... further on.
Digest(k, n, m) ==
    IF n = 1 THEN <<(k + Len(m) + FoldBytes(m, 1, 1, 1)) % 256>>
    ELSE Tuple([i \in 1..n |->
             IF i = 1 THEN (k + Len(m)) % 256
             ELSE (k * i + FoldBytes(m, i - 1, n - 1, 1)) % 256])

\* hashlib.md5(m).digest(): 16 bytes
md5(m) == Digest(77, 16, m)

\* hashlib.sha1(m).digest(): 20 bytes
sha1(m) == Digest(83, 20, m)

\* A comparison that stops at the lengths.
_timing_safe_compare_lengths(a, b) == Len(a) = Len(b)

\* hmac.compare_digest on two byte strings: equality, in constant time.
_timing_safe_compare(a, b) == a = b

IsDigit(c) == c >= 48 /\ c <= 57

\* A character of crypt's and bcrypt's alphabet ./0-9A-Za-z
IsSaltChar(c) ==
    \/ c = 46 \/ c = 47 \/ IsDigit(c)
    \/ (c >= 65 /\ c <= 90) \/ (c >= 97 /\ c <= 122)

\* The length of a bcrypt salt: "$2b$" + two cost digits + "$" + 22
\* characters.
BcryptSaltLen == 29

\* The number of password bytes bcrypt uses (password.py, note of the
\* BCRYPTPasswordManager docstring).
BcryptMaxPassword == 72

\* A salt bcrypt.hashpw accepts: $2a$, $2b$, $2x$ or $2y$, a two-digit cost
\* in 4..31, and at least 22 salt characters.
BcryptValidSalt(s) ==
    /\ Len(s) >= BcryptSaltLen
    /\ s[1] = 36 /\ s[2] = 50 /\ s[3] \in {97, 98, 120, 121} /\ s[4] = 36
    /\ IsDigit(s[5]) /\ IsDigit(s[6]) /\ s[7] = 36
    /\ (s[5] - 48) * 10 + (s[6] - 48) \in 4..31
    /\ \A i \in 8..BcryptSaltLen : IsSaltChar(s[i])

\* bcrypt.hashpw(pw, salt) on bytes: ValueError on an invalid salt, else
\* the 29 salt bytes followed by 31 characters of hash.  Only the first 72
\* password bytes are used.
bcrypt_hashpw(pw, salt) ==
    IF ~BcryptValidSalt(salt) THEN Raise("ValueError")
    ELSE LET s29 == Upto(salt, BcryptSaltLen)
             d   == Digest(66, 23, Upto(pw, BcryptMaxPassword) \o s29)
         IN  Bytes(s29 \o Upto(B64EncodeWith("bcrypt", d), 31))

\* bcrypt.checkpw(pw, hashed): rehash with the stored value as salt and
\* compare; ValueError on an invalid salt.
bcrypt_checkpw(pw, hashed) ==
    LET h == bcrypt_hashpw(pw, hashed)
    IN  IF IsRaise(h) THEN h ELSE Bool(h.s = hashed)

\* bcrypt.gensalt(): "$2b$12$" and the 22-character encoding of 16 random
\* bytes, here the bytes r, r+1, ...
bcrypt_gensalt(r) ==
    <<36, 50, 98, 36, 49, 50, 36>>
    \o Upto(B64EncodeWith("bcrypt",
                         Tuple([i \in 1..16 |-> (37 * r + 11 * i) % 256])), 22)

\* bcrypt.kdf(password, salt, desired_key_bytes, rounds): a key of keylen
\* bytes; ValueError on an empty password or salt, a key length outside
\* 1..512 or a rounds count below 1.
bcrypt_kdf(password, salt, keylen, rounds) ==
    IF Len(password) = 0 \/ Len(salt) = 0 \/ keylen < 1 \/ keylen > 512
       \/ rounds < 1
    THEN Raise("ValueError")
    ELSE Bytes(Digest(75, keylen,
                      <<rounds % 256, (rounds \div 256) % 256>> \o password \o salt))

\* What crypt() does with a salt it rejects is the platform's business: it
\* hands back a failure token, or Python raises OSError.
CryptFailures == {"token", "OSError"}

\* crypt.crypt(word, salt) with a two-character salt, traditional DES: the
\* key is the low 7 bits of the first 8 UTF-8 bytes of the word, the result
\* is the salt followed by 11 characters.  word and salt must be text.
crypt(word, salt, failure) ==
    IF word.t # "str" \/ salt.t # "str" THEN Raise("TypeError")
    ELSE IF Len(salt.s) < 2 \/ ~IsSaltChar(salt.s[1]) \/ ~IsSaltChar(salt.s[2])
    THEN (IF failure = "OSError" THEN Raise("OSError")
          ELSE IF StartsWith(salt.s, <<42, 48>>) THEN Str(<<42, 49>>)
          ELSE Str(<<42, 48>>))
    ELSE LET w   == Utf8(word.s)
             key == Tuple([i \in 1..8 |->
                              IF i <= Len(w) THEN w[i] % 128 ELSE 0])
             d   == Tuple([i \in 1..8 |->
                        (key[i] + 7 * salt.s[1] + 13 * i * salt.s[2]) % 256])
         IN  Str(Upto(salt.s, 2) \o Upto(B64EncodeWith("bcrypt", d), 11))

(***************************************************************************)
(* Unbounded integers as little-endian sequences of bytes, for the          *)
(* arithmetic of MySQLPasswordManager.encodePassword (Python integers do    *)
(* not wrap).                                                               *)
(***************************************************************************)
RECURSIVE NatLimbs(_)
NatLimbs(n) == IF n = 0 THEN <<>> ELSE <<n % 256>> \o NatLimbs(n \div 256)

Limb(a, i) == IF i <= Len(a) THEN a[i] ELSE 0

MaxOf(x, y) == IF x >= y THEN x ELSE y

XorBit(x, y, w) == (((x \div w) + (y \div w)) % 2) * w

\* x ^ y for two bytes
XorByte(x, y) ==
    XorBit(x, y, 1) + XorBit(x, y, 2) + XorBit(x, y, 4) + XorBit(x, y, 8)
    + XorBit(x, y, 16) + XorBit(x, y, 32) + XorBit(x, y, 64)
    + XorBit(x, y, 128)

\* a ^ b
LimbsXor(a, b) ==
    Tuple([i \in 1..MaxOf(Len(a), Len(b)) |-> XorByte(Limb(a, i), Limb(b, i))])

\* a + b
RECURSIVE LimbsAddFrom(_, _, _, _)
LimbsAddFrom(a, b, i, carry) ==
    IF i > Len(a) /\ i > Len(b)
    THEN (IF carry = 0 THEN <<>> ELSE <<carry>>)
    ELSE LET t == Limb(a, i) + Limb(b, i) + carry
         IN  <<t % 256>> \o LimbsAddFrom(a, b, i + 1, t \div 256)

LimbsAdd(a, b) == LimbsAddFrom(a, b, 1, 0)

\* a << 8
LimbsShl8(a) == <<0>> \o a

\* a & 63
LimbsLow6(a) == Limb(a, 1) % 64

\* A formatting of the low 32 bits, without the mask.
Hex31_unmasked(a) ==
    <<HexDigit(Limb(a, 4) \div 16), HexDigit(Limb(a, 4) % 16),
      HexDigit(Limb(a, 3) \div 16), HexDigit(Limb(a, 3) % 16),
      HexDigit(Limb(a, 2) \div 16), HexDigit(Limb(a, 2) % 16),
      HexDigit(Limb(a, 1) \div 16), HexDigit(Limb(a, 1) % 16)>>

\* "%08lx" % (a & ((1 << 31) - 1)): the low 31 bits as 8 hexadecimal digits
Hex31(a) ==
    LET top == Limb(a, 4) % 128
    IN  <<HexDigit(top \div 16), HexDigit(top % 16),
          HexDigit(Limb(a, 3) \div 16), HexDigit(Limb(a, 3) % 16),
          HexDigit(Limb(a, 2) \div 16), HexDigit(Limb(a, 2) % 16),
          HexDigit(Limb(a, 1) \div 16), HexDigit(Limb(a, 1) % 16)>>

\* "%x" % n for n >= 0
RECURSIVE HexOf(_)
HexOf(n) ==
    IF n < 16 THEN <<HexDigit(n)>>
    ELSE Append(HexOf(n \div 16), HexDigit(n % 16))

\* int(s, 16) for a non-empty string of hexadecimal digits
RECURSIVE IntOfHex(_)
IntOfHex(s) ==
    IF Len(s) = 0 THEN 0
    ELSE IntOfHex(SubSeq(s, 1, Len(s) - 1)) * 16 + HexVal(s[Len(s)])

\* s.split(b'$'): the fields between the '$' bytes
SplitDollar(s) ==
    LET n      == Len(s)
        cuts   == {i \in 1..n : s[i] = 36}
        k      == Cardinality(cuts)
        cut(j) == IF j = 0 THEN 0
                  ELSE IF j > k THEN n + 1
                  ELSE CHOOSE i \in cuts :
                           Cardinality({h \in cuts : h < i}) = j - 1
    IN  Tuple([j \in 1..(k + 1) |-> SubSeq(s, cut(j - 1) + 1, cut(j) - 1)])

(***************************************************************************)
(* The state of the program.                                                *)
(***************************************************************************)
VARIABLES
    has_bcrypt, \* password.py: "import bcrypt" succeeded (else bcrypt = None)
    has_crypt,  \* legacy.py: "from crypt import crypt" succeeded (else crypt = None)
    managers,   \* password.managers: the registry, a list of names
    utilities,  \* zope.component's registry: the utilities provided, in order
    rounds,     \* BCRYPTKDFPasswordManager.rounds of the shared manager
    keylen,     \* BCRYPTKDFPasswordManager.keylen of the shared manager
    cred,       \* the stored credential in hand and where it came from
    call,       \* the last manager call: operation, manager, arguments
    result,     \* what that call returned or raised
    app,        \* zpasswd.py: the Application run: its position and its locals
    frame       \* a BCRYPTKDF encodePassword call in progress: where it is
                \* and what it has read

vars == <<has_bcrypt, has_crypt, managers, utilities, rounds, keylen, cred,
          call, result, app, frame>>

\* What only the import of the modules and their owner's setup write.
env == <<has_bcrypt, has_crypt, managers, utilities, app, frame>>

\* password.py: where the import of bcrypt failed the name bcrypt is None,
\* and bcrypt.gensalt, bcrypt.hashpw, bcrypt.checkpw and bcrypt.kdf raise
\* AttributeError.  legacy.py: where the import of crypt failed, crypt is
\* None and calling it raises TypeError, and choice was never imported and
\* naming it raises NameError.
NoBcrypt == Raise("AttributeError")

\* An argument that was not passed at all (salt left to its default, or
\* passed to a method that has no such parameter).
NoArg == [t |-> "noarg", s |-> <<>>, b |-> FALSE, x |-> ""]

\* os.urandom(4) for the r-th draw of the random source
urandom4(r) == Tuple([i \in 1..4 |-> (83 * r + 59 * i) % 256])

\* random.choice(choices) for a draw i: A-Z a-z 0-9 . /
CryptChoice(i) ==
    IF i % 64 = 62 THEN 46 ELSE IF i % 64 = 63 THEN 47 ELSE StdAlpha(i % 64)

(***************************************************************************)
(* password.py: PlainTextPasswordManager                                    *)
(***************************************************************************)
PlainTextPasswordManager_encodePassword(password) == _encoder(password)

\* A check that compares the stored value with the password as given.
PlainTextPasswordManager_checkPassword_raw(encoded_password, password) ==
    Bool(PyEq(encoded_password, password))

PlainTextPasswordManager_checkPassword(encoded_password, password) ==
    LET enc == PlainTextPasswordManager_encodePassword(password)
    IN  IF IsRaise(enc) THEN enc ELSE Bool(PyEq(encoded_password, enc))

\* A match that claims every value no tag marks.
PlainTextPasswordManager_match_untagged(encoded_password) ==
    Bool(Len(encoded_password.s) = 0 \/ encoded_password.s[1] # 123)

PlainTextPasswordManager_match(encoded_password) == Bool(FALSE)

\* A match that wants the stored value to be the tag and nothing more.
_PrefixedPasswordManager_match_equal(prefix, encoded_password) ==
    LET e == _encoder(encoded_password)
    IN  IF IsRaise(e) THEN e ELSE Bool(e.s = prefix)

\* _PrefixedPasswordManager.match for a manager with the given _prefix
_PrefixedPasswordManager_match(prefix, encoded_password) ==
    LET e == _encoder(encoded_password)
    IN  IF IsRaise(e) THEN e ELSE Bool(StartsWith(e.s, prefix))

(***************************************************************************)
(* password.py: SSHAPasswordManager                                         *)
(***************************************************************************)
\* An encoding that leaves the salt out.
SSHAPasswordManager_encodePassword_unsalted(password, salt, r) ==
    LET p == _encoder(password)
    IN  IF IsRaise(p) THEN p
        ELSE Bytes(SSHA_prefix \o standard_b64encode(sha1(p.s)))

SSHAPasswordManager_encodePassword(password, salt, r) ==
    LET s == IF salt.t \in {"None", "noarg"} THEN Bytes(urandom4(r))
             ELSE IF salt.t # "bytes" THEN _encoder(salt)
             ELSE salt
        p == _encoder(password)
    IN  IF IsRaise(s) THEN s
        ELSE IF IsRaise(p) THEN p
        ELSE Bytes(SSHA_prefix \o standard_b64encode(sha1(p.s \o s.s) \o s.s))

SSHAPasswordManager_checkPassword(encoded_password, password) ==
    LET e == _encoder(encoded_password)
    IN  IF IsRaise(e) THEN e
        ELSE LET payload == From(e.s, 6)
                 urlsafe == Contains(payload, 95) \/ Contains(payload, 45)
                 byte_string == IF urlsafe THEN urlsafe_b64decode(payload)
                                ELSE standard_b64decode(payload)
             IN  IF IsRaise(byte_string) THEN byte_string
                 ELSE LET stored == IF urlsafe
                                    THEN standard_b64encode(byte_string.s)
                                    ELSE payload
                          salt == Bytes(From(byte_string.s, 20))
                          enc  == SSHAPasswordManager_encodePassword(password, salt, 0)
                      IN  IF IsRaise(enc) THEN enc
                          ELSE Bool(_timing_safe_compare(stored, From(enc.s, 6)))

SSHAPasswordManager_match(encoded_password) ==
    _PrefixedPasswordManager_match(SSHA_prefix, encoded_password)

(***************************************************************************)
(* password.py: SMD5PasswordManager                                         *)
(***************************************************************************)
SMD5PasswordManager_encodePassword(password, salt, r) ==
    LET s == IF salt.t \in {"None", "noarg"} THEN Bytes(urandom4(r))
             ELSE IF salt.t = "str" THEN Bytes(Utf8(salt.s))
             ELSE salt
        p == _encoder(password)
    IN  IF IsRaise(p) THEN p
        ELSE Bytes(SMD5_prefix \o standard_b64encode(md5(p.s \o s.s) \o s.s))

SMD5PasswordManager_checkPassword(encoded_password, password) ==
    LET e == _encoder(encoded_password)
    IN  IF IsRaise(e) THEN e
        ELSE LET byte_string == standard_b64decode(From(e.s, 6))
             IN  IF IsRaise(byte_string) THEN byte_string
                 ELSE LET salt == Bytes(From(byte_string.s, 16))
                          enc  == SMD5PasswordManager_encodePassword(password, salt, 0)
                      IN  IF IsRaise(enc) THEN enc
                          ELSE Bool(_timing_safe_compare(e.s, enc.s))

SMD5PasswordManager_match(encoded_password) ==
    _PrefixedPasswordManager_match(SMD5_prefix, encoded_password)

(***************************************************************************)
(* password.py: MD5PasswordManager                                          *)
(***************************************************************************)
\* An encoding that hashes the salt along with the password.
MD5PasswordManager_encodePassword_salted(password, salt) ==
    LET p == _encoder(password)
    IN  IF IsRaise(p) THEN p
        ELSE Bytes(MD5_prefix \o standard_b64encode(md5(p.s \o salt.s)))

\* The salt argument is accepted and ignored.
MD5PasswordManager_encodePassword(password, salt) ==
    LET p == _encoder(password)
    IN  IF IsRaise(p) THEN p
        ELSE Bytes(MD5_prefix \o standard_b64encode(md5(p.s)))

MD5PasswordManager_checkPassword(encoded_password, password) ==
    LET e == _encoder(encoded_password)
    IN  IF IsRaise(e) THEN e
        ELSE LET payload == From(e.s, Find1(e.s, 125))
                 encoded == IF Len(payload) > 24
                            THEN a2b_hex(Last(payload, 32))
                            ELSE Bytes(payload)
             IN  IF IsRaise(encoded) THEN encoded
                 ELSE LET stored == IF Len(payload) > 24
                                    THEN standard_b64encode(encoded.s)
                                    ELSE payload
                          enc == MD5PasswordManager_encodePassword(password, NoArg)
                      IN  IF IsRaise(enc) THEN enc
                          ELSE Bool(_timing_safe_compare(stored, From(enc.s, 5)))

MD5PasswordManager_match(encoded_password) ==
    _PrefixedPasswordManager_match(MD5_prefix, encoded_password)

(***************************************************************************)
(* password.py: SHA1PasswordManager                                         *)
(***************************************************************************)
\* The salt argument is accepted and ignored.
SHA1PasswordManager_encodePassword(password, salt) ==
    LET p == _encoder(password)
    IN  IF IsRaise(p) THEN p
        ELSE Bytes(SHA1_prefix \o standard_b64encode(sha1(p.s)))

\* A match on the current tag alone.
SHA1PasswordManager_match_current(encoded_password) ==
    _PrefixedPasswordManager_match(SHA1_prefix, encoded_password)

\* startswith((self._prefix, b'{SHA1}'))
SHA1PasswordManager_match(encoded_password) ==
    LET e == _encoder(encoded_password)
    IN  IF IsRaise(e) THEN e
        ELSE Bool(StartsWith(e.s, SHA1_prefix)
                  \/ StartsWith(e.s, SHA1_legacy_prefix))

SHA1PasswordManager_checkPassword(encoded_password, password) ==
    LET e == _encoder(encoded_password)
    IN  IF IsRaise(e) THEN e
        ELSE LET tagged  == IsTrue(SHA1PasswordManager_match(e))
                 payload == IF tagged THEN From(e.s, Find1(e.s, 125))
                            ELSE e.s
                 hex     == IF tagged THEN Len(payload) > 28 ELSE TRUE
                 encoded == IF hex THEN a2b_hex(Last(payload, 40))
                            ELSE Bytes(payload)
             IN  IF IsRaise(encoded) THEN encoded
                 ELSE LET stored == IF hex THEN standard_b64encode(encoded.s)
                                    ELSE payload
                          enc == SHA1PasswordManager_encodePassword(password, NoArg)
                      IN  IF IsRaise(enc) THEN enc
                          ELSE IF tagged THEN Bool(stored = From(enc.s, 5))
                          ELSE Bool(_timing_safe_compare(stored, From(enc.s, 5)))

(***************************************************************************)
(* password.py: BCRYPTPasswordManager                                       *)
(***************************************************************************)
\* _z3c_bcrypt_syntax.match(s): \$2a\$[0-9]{2}\$[./A-Za-z0-9]{53} at the
\* start of s
_z3c_bcrypt_syntax(s) ==
    /\ Len(s) >= 60
    /\ s[1] = 36 /\ s[2] = 50 /\ s[3] = 97 /\ s[4] = 36
    /\ IsDigit(s[5]) /\ IsDigit(s[6]) /\ s[7] = 36
    /\ \A i \in 8..60 : IsSaltChar(s[i])

\* A match on the tag alone.
BCRYPTPasswordManager_match_tagged(hashed_password) ==
    _PrefixedPasswordManager_match(BCRYPT_prefix, hashed_password)

BCRYPTPasswordManager_match(hashed_password) ==
    LET h == _encoder(hashed_password)
    IN  IF IsRaise(h) THEN h
        ELSE Bool(StartsWith(h.s, BCRYPT_prefix) \/ _z3c_bcrypt_syntax(h.s))

BCRYPTPasswordManager_encodePassword(password, salt, r) ==
    LET s  == IF salt.t \in {"None", "noarg"}
              THEN (IF has_bcrypt THEN Bytes(bcrypt_gensalt(r)) ELSE NoBcrypt)
              ELSE _encoder(salt)
        pw == _encoder(password)
    IN  IF IsRaise(s) THEN s
        ELSE IF IsRaise(pw) THEN pw
        ELSE LET h == IF has_bcrypt THEN bcrypt_hashpw(pw.s, s.s) ELSE NoBcrypt
             IN  IF IsRaise(h) THEN h ELSE Bytes(BCRYPT_prefix \o h.s)

\* hashed_password.startswith(self._prefix) is called on the argument as it
\* was passed: on a text value it raises TypeError.
BCRYPTPasswordManager_checkPassword(hashed_password, clear_password) ==
    LET m == BCRYPTPasswordManager_match(hashed_password)
    IN  IF IsRaise(m) THEN m
        ELSE IF ~m.b THEN Bool(FALSE)
        ELSE LET pw_bytes == _encoder(clear_password)
             IN  IF IsRaise(pw_bytes) THEN pw_bytes
                 ELSE IF hashed_password.t # "bytes" THEN Raise("TypeError")
                 ELSE LET pw_hash == IF StartsWith(hashed_password.s, BCRYPT_prefix)
                                     THEN From(hashed_password.s, Len(BCRYPT_prefix))
                                     ELSE hashed_password.s
                          ok == IF has_bcrypt
                                THEN bcrypt_checkpw(pw_bytes.s, pw_hash)
                                ELSE NoBcrypt
                      IN  IF IsRaise(ok) /\ ok.x = "ValueError" THEN Bool(FALSE)
                          ELSE ok

(***************************************************************************)
(* password.py: BCRYPTKDFPasswordManager                                    *)
(***************************************************************************)
BCRYPTKDFPasswordManager_match(hashed_password) ==
    _PrefixedPasswordManager_match(BCRYPTKDF_prefix, hashed_password)

\* An encoding that writes the manager's rounds attribute into the value
\* while the key is derived with the rounds it was given.
BCRYPTKDFPasswordManager__encode_attribute(password, salt, rounds_, keylen_) ==
    LET p == _encoder(password)
    IN  IF IsRaise(p) THEN p
        ELSE LET key == IF has_bcrypt THEN bcrypt_kdf(p.s, salt, keylen_, rounds_)
                        ELSE NoBcrypt
             IN  IF IsRaise(key) THEN key
                 ELSE Bytes(BCRYPTKDF_prefix \o HexOf(rounds) \o <<36>>
                            \o urlsafe_b64encode(salt) \o <<36>>
                            \o urlsafe_b64encode(key.s))

BCRYPTKDFPasswordManager__encode(password, salt, rounds_, keylen_) ==
    LET p == _encoder(password)
    IN  IF IsRaise(p) THEN p
        ELSE LET key == IF has_bcrypt THEN bcrypt_kdf(p.s, salt, keylen_, rounds_)
                        ELSE NoBcrypt
             IN  IF IsRaise(key) THEN key
                 ELSE Bytes(BCRYPTKDF_prefix \o HexOf(rounds_) \o <<36>>
                            \o urlsafe_b64encode(salt) \o <<36>>
                            \o urlsafe_b64encode(key.s))

\* encodePassword(self, password) with self.rounds and self.keylen
BCRYPTKDFPasswordManager_encodePassword(password, r) ==
    IF ~has_bcrypt THEN NoBcrypt
    ELSE BCRYPTKDFPasswordManager__encode(password, bcrypt_gensalt(r), rounds,
                                          keylen)

\* A field int(rounds, 16) parses: hexadecimal digits, at least one.
IsHexNumber(s) == Len(s) > 0 /\ \A i \in 1..Len(s) : HexVal(s[i]) < 16

\* A check that derives the key with the manager's current rounds and
\* keylen.
BCRYPTKDFPasswordManager_checkPassword_current(hashed_password, clear_password) ==
    LET h == _encoder(hashed_password)
    IN  IF IsRaise(h) THEN h
        ELSE IF ~IsTrue(BCRYPTKDFPasswordManager_match(h)) THEN Bool(FALSE)
        ELSE LET fields == SplitDollar(From(h.s, Len(BCRYPTKDF_prefix)))
             IN  IF Len(fields) # 3 THEN Raise("ValueError")
                 ELSE LET salt == urlsafe_b64decode(fields[2])
                      IN  IF IsRaise(salt) THEN salt
                          ELSE LET enc == BCRYPTKDFPasswordManager__encode(
                                              clear_password, salt.s, rounds, keylen)
                               IN  IF IsRaise(enc) THEN enc
                                   ELSE Bool(_timing_safe_compare(h.s, enc.s))

\* rounds, salt and key length are read back from the stored value.
BCRYPTKDFPasswordManager_checkPassword(hashed_password, clear_password) ==
    LET h == _encoder(hashed_password)
    IN  IF IsRaise(h) THEN h
        ELSE IF ~IsTrue(BCRYPTKDFPasswordManager_match(h)) THEN Bool(FALSE)
        ELSE LET fields == SplitDollar(From(h.s, Len(BCRYPTKDF_prefix)))
             IN  IF Len(fields) # 3 THEN Raise("ValueError")
                 ELSE IF ~IsHexNumber(fields[1]) THEN Raise("ValueError")
                 ELSE LET salt == urlsafe_b64decode(fields[2])
                          key  == urlsafe_b64decode(fields[3])
                      IN  IF IsRaise(salt) THEN salt
                          ELSE IF IsRaise(key) THEN key
                          ELSE LET enc == BCRYPTKDFPasswordManager__encode(
                                              clear_password, salt.s,
                                              IntOfHex(fields[1]), Len(key.s))
                               IN  IF IsRaise(enc) THEN enc
                                   ELSE Bool(_timing_safe_compare(h.s, enc.s))

(***************************************************************************)
(* legacy.py: MySQLPasswordManager                                          *)
(***************************************************************************)
\* A loop that hashes every byte, spaces and tabs too.
RECURSIVE MySQLLoop_noskip(_, _, _, _, _)
MySQLLoop_noskip(bs, i, nr, nr2, add) ==
    IF i > Len(bs) THEN <<nr, nr2>>
    ELSE LET nr_  == LimbsXor(nr, LimbsAdd(NatLimbs((LimbsLow6(nr) + add) * bs[i]),
                                           LimbsShl8(nr)))
             nr2_ == LimbsAdd(nr2, LimbsXor(LimbsShl8(nr2), nr_))
         IN  IF Len(nr_) + Len(nr2_) >= 0
             THEN MySQLLoop_noskip(bs, i + 1, nr_, nr2_, add + bs[i])
             ELSE <<nr_, nr2_>>

\* The loop over the password's bytes; nr and nr2 are unbounded integers.
RECURSIVE MySQLLoop(_, _, _, _, _)
MySQLLoop(bs, i, nr, nr2, add) ==
    IF i > Len(bs) THEN <<nr, nr2>>
    ELSE IF bs[i] = 32 \/ bs[i] = 9 THEN MySQLLoop(bs, i + 1, nr, nr2, add)
    ELSE LET nr_  == LimbsXor(nr, LimbsAdd(NatLimbs((LimbsLow6(nr) + add) * bs[i]),
                                           LimbsShl8(nr)))
             nr2_ == LimbsAdd(nr2, LimbsXor(LimbsShl8(nr2), nr_))
         IN  IF Len(nr_) + Len(nr2_) >= 0  \* computes this step's values now
             THEN MySQLLoop(bs, i + 1, nr_, nr2_, add + bs[i])
             ELSE <<nr_, nr2_>>

MySQLPasswordManager_encodePassword(password) ==
    LET p == legacy_encoder(password)
    IN  IF IsRaise(p) THEN p
        ELSE LET r == MySQLLoop(p.s, 1, NatLimbs(1345345333), NatLimbs(305419889), 7)
             IN  Bytes(MYSQL_prefix \o Hex31(r[1]) \o Hex31(r[2]))

\* A text credential is encoded as ASCII; a value that is neither bytes nor
\* text has no encode attribute.
MySQL_ascii(encoded_password) ==
    IF encoded_password.t = "bytes" THEN encoded_password
    ELSE IF encoded_password.t = "str" THEN EncodeAscii(encoded_password.s)
    ELSE Raise("AttributeError")

MySQLPasswordManager_checkPassword(encoded_password, password) ==
    LET e == MySQL_ascii(encoded_password)
    IN  IF IsRaise(e) THEN e
        ELSE LET enc == MySQLPasswordManager_encodePassword(password)
             IN  IF IsRaise(enc) THEN enc ELSE Bool(PyEq(e, enc))

MySQLPasswordManager_match(encoded_password) ==
    LET e == MySQL_ascii(encoded_password)
    IN  IF IsRaise(e) THEN e ELSE Bool(StartsWith(e.s, MYSQL_prefix))

(***************************************************************************)
(* legacy.py: CryptPasswordManager (Python 3: PY2 is false)                 *)
(***************************************************************************)
\* failure: what the platform's crypt() does with a salt it rejects.
CryptPasswordManager_encodePassword(password, salt, r, failure) ==
    LET s == IF salt.t \in {"None", "noarg"}
             THEN (IF has_crypt THEN Str(<<CryptChoice(r), CryptChoice(7 * r + 3)>>)
                   ELSE Raise("NameError"))
             ELSE salt
        c == IF IsRaise(s) THEN s
             ELSE IF has_crypt THEN crypt(password, s, failure)
             ELSE Raise("TypeError")
    IN  IF IsRaise(c) THEN c ELSE Str(CRYPT_prefix \o c.s)

\* encoded_password[7:9] keeps the type of the credential.
CryptPasswordManager_checkPassword(encoded_password, password, failure) ==
    IF encoded_password.t \notin {"bytes", "str"} THEN Raise("TypeError")
    ELSE LET salt == [encoded_password EXCEPT !.s = Upto(From(@, 7), 2)]
             enc  == CryptPasswordManager_encodePassword(password, salt, 0, failure)
         IN  IF IsRaise(enc) THEN enc ELSE Bool(PyEq(encoded_password, enc))

\* str.startswith('{CRYPT}'): bytes.startswith with a text argument raises
\* TypeError, None has no startswith.
CryptPasswordManager_match(encoded_password) ==
    IF encoded_password.t = "str"
    THEN Bool(StartsWith(encoded_password.s, CRYPT_prefix))
    ELSE IF encoded_password.t = "bytes" THEN Raise("TypeError")
    ELSE Raise("AttributeError")

(***************************************************************************)
(* The managers by name.  m is a registry name; r is the draw of the random *)
(* source the call consumes when it generates a salt, failure the           *)
(* platform's crypt() failure mode.                                         *)
(***************************************************************************)
Schemes ==
    {"Plain Text", "MD5", "SMD5", "SHA1", "SSHA", "MySQL", "Crypt", "BCRYPT",
     "BCRYPTKDF"}

\* m.encodePassword(password) when salt is NoArg, m.encodePassword(password,
\* salt) otherwise; the methods of Plain Text, MySQL and BCRYPTKDF have no
\* salt parameter.
encodePassword(m, password, salt, r, failure) ==
    IF m \in {"Plain Text", "MySQL", "BCRYPTKDF"} /\ salt.t # "noarg"
    THEN Raise("TypeError")
    ELSE IF m = "Plain Text" THEN PlainTextPasswordManager_encodePassword(password)
    ELSE IF m = "MD5" THEN MD5PasswordManager_encodePassword(password, salt)
    ELSE IF m = "SMD5" THEN SMD5PasswordManager_encodePassword(password, salt, r)
    ELSE IF m = "SHA1" THEN SHA1PasswordManager_encodePassword(password, salt)
    ELSE IF m = "SSHA" THEN SSHAPasswordManager_encodePassword(password, salt, r)
    ELSE IF m = "MySQL" THEN MySQLPasswordManager_encodePassword(password)
    ELSE IF m = "Crypt"
    THEN CryptPasswordManager_encodePassword(password, salt, r, failure)
    ELSE IF m = "BCRYPT" THEN BCRYPTPasswordManager_encodePassword(password, salt, r)
    ELSE BCRYPTKDFPasswordManager_encodePassword(password, r)

checkPassword(m, encoded_password, password, failure) ==
    IF m = "Plain Text"
    THEN PlainTextPasswordManager_checkPassword(encoded_password, password)
    ELSE IF m = "MD5" THEN MD5PasswordManager_checkPassword(encoded_password, password)
    ELSE IF m = "SMD5" THEN SMD5PasswordManager_checkPassword(encoded_password, password)
    ELSE IF m = "SHA1" THEN SHA1PasswordManager_checkPassword(encoded_password, password)
    ELSE IF m = "SSHA" THEN SSHAPasswordManager_checkPassword(encoded_password, password)
    ELSE IF m = "MySQL" THEN MySQLPasswordManager_checkPassword(encoded_password, password)
    ELSE IF m = "Crypt"
    THEN CryptPasswordManager_checkPassword(encoded_password, password, failure)
    ELSE IF m = "BCRYPT"
    THEN BCRYPTPasswordManager_checkPassword(encoded_password, password)
    ELSE BCRYPTKDFPasswordManager_checkPassword(encoded_password, password)

\* The primitive through which m.checkPassword(encoded_password, password)
\* compares the stored value with the freshly computed one, on the path the
\* call takes: "==" (ordinary equality), "compare_digest"
\* (_timing_safe_compare), "checkpw" (inside bcrypt.checkpw), or "none" when
\* the call returns or raises before it compares anything.
comparison(m, encoded_password, password, failure) ==
    LET res == checkPassword(m, encoded_password, password, failure)
    IN  IF res.t # "bool" THEN "none"
        ELSE IF m \in {"Plain Text", "MySQL", "Crypt"} THEN "=="
        ELSE IF m = "SHA1"
        THEN (IF IsTrue(SHA1PasswordManager_match(_encoder(encoded_password)))
              THEN "==" ELSE "compare_digest")
        ELSE IF m = "BCRYPT"
        THEN (IF IsTrue(BCRYPTPasswordManager_match(encoded_password))
                 /\ BcryptValidSalt(From(encoded_password.s,
                                         IF StartsWith(encoded_password.s, BCRYPT_prefix)
                                         THEN Len(BCRYPT_prefix) ELSE 0))
              THEN "checkpw" ELSE "none")
        ELSE IF m = "BCRYPTKDF"
        THEN (IF IsTrue(BCRYPTKDFPasswordManager_match(encoded_password))
              THEN "compare_digest" ELSE "none")
        ELSE "compare_digest"

match(m, encoded_password) ==
    IF m = "Plain Text" THEN PlainTextPasswordManager_match(encoded_password)
    ELSE IF m = "MD5" THEN MD5PasswordManager_match(encoded_password)
    ELSE IF m = "SMD5" THEN SMD5PasswordManager_match(encoded_password)
    ELSE IF m = "SHA1" THEN SHA1PasswordManager_match(encoded_password)
    ELSE IF m = "SSHA" THEN SSHAPasswordManager_match(encoded_password)
    ELSE IF m = "MySQL" THEN MySQLPasswordManager_match(encoded_password)
    ELSE IF m = "Crypt" THEN CryptPasswordManager_match(encoded_password)
    ELSE IF m = "BCRYPT" THEN BCRYPTPasswordManager_match(encoded_password)
    ELSE BCRYPTKDFPasswordManager_match(encoded_password)

\* The canonical tag a manager writes in front of its output.
Tag(m) ==
    IF m = "MD5" THEN MD5_prefix
    ELSE IF m = "SMD5" THEN SMD5_prefix
    ELSE IF m = "SHA1" THEN SHA1_prefix
    ELSE IF m = "SSHA" THEN SSHA_prefix
    ELSE IF m = "MySQL" THEN MYSQL_prefix
    ELSE IF m = "Crypt" THEN CRYPT_prefix
    ELSE IF m = "BCRYPT" THEN BCRYPT_prefix
    ELSE IF m = "BCRYPTKDF" THEN BCRYPTKDF_prefix
    ELSE <<>>

(***************************************************************************)
(* The inputs the calls are made with.                                      *)
(***************************************************************************)
\* Longest password drawn from PwChars.
MaxPwLen == 2

\* Number of draws of the random source (os.urandom, random.choice,
\* bcrypt.gensalt).
NumRandom == 2

\* 'a' and ' '
PwChars == {97, 32}

\* u"right \N{CYRILLIC CAPITAL LETTER A}", the password of the doctests:
\* exactly 8 bytes in UTF-8
Right == <<114, 105, 103, 104, 116, 32, 1040>>

\* Right + u"wrong"
RightWrong == Right \o <<119, 114, 111, 110, 103>>

\* u"\xe9" and "C)": UTF-8 bytes that agree in their low 7 bits
Eacute == <<233>>

CParen == <<67, 41>>

\* 72 bytes, and the same followed by one more
Long72 == Tuple([i \in 1..BcryptMaxPassword |-> 97])

Long73 == Long72 \o <<98>>

\* '\tign or ed', the password of MySQL's doctest
TabPassword == <<9, 105, 103, 110, 32, 111, 114, 32, 101, 100>>

\* The text passwords, the empty one included.
Passwords ==
    {Tuple(f) : f \in UNION {[1..n -> PwChars] : n \in 0..MaxPwLen}}
    \cup {Right, RightWrong, Eacute, CParen}

\* The passwords also passed as bytes.
BytePasswords == {<<97>>, Right}

\* Password arguments of a call on manager m; the long ones go to BCRYPT,
\* the only manager whose primitive looks at the length.
PasswordArgs(m) ==
    {Str(p) : p \in Passwords}
    \cup {Bytes(Utf8(p)) : p \in BytePasswords}
    \cup (IF m = "BCRYPT" THEN {Str(Long72), Str(Long73)} ELSE {})
    \cup (IF m = "MySQL" THEN {Str(TabPassword)} ELSE {})

\* Password arguments of a checkPassword call on manager m: a caller may
\* also pass None where the password belongs.
CheckArgs(m) == PasswordArgs(m) \cup {None}

\* "salt"
SaltText == <<115, 97, 108, 116>>

\* "$2a$10$" and 22 salt characters: the salt of a hash made by z3c.bcrypt
Z3cSalt == <<36, 50, 97, 36, 49, 48, 36>> \o SubSeq(bcrypt_gensalt(0), 8, 29)

\* A complete bcrypt hash, as bcrypt.checkpw passes it for the salt: a salt
\* followed by 31 more characters.
HashAsSalt == bcrypt_hashpw(<<97>>, bcrypt_gensalt(0)).s

\* Salt arguments of an encodePassword call on manager m.  NoArg leaves the
\* salt to the manager.
SaltArgs(m) ==
    IF m \in {"SSHA", "SMD5"}
    THEN {NoArg, Str(<<>>), Str(SaltText), Bytes(SaltText)}
    ELSE IF m = "Crypt" THEN {NoArg, Str(<<101, 114>>), Str(<<33>>)}
    ELSE IF m = "BCRYPT"
    THEN {NoArg, Bytes(bcrypt_gensalt(0)), Str(bcrypt_gensalt(0)), Bytes(SaltText),
          Bytes(Z3cSalt), Bytes(HashAsSalt)}
    ELSE {NoArg, Str(SaltText)}

\* The cosmetic salts an earlier MD5 or SHA1 manager put in front of its
\* hexadecimal digest: none, "salt", one with a closing brace in it, and one
\* longer than the digest.
CosmeticSalts ==
    {<<>>, SaltText, <<97, 98, 125, 99, 100>>, Tuple([i \in 1..50 |-> 115])}

\* The hexadecimal digest of the doctests' password, as the earlier MD5
\* (m = "MD5") or SHA1 manager wrote it.
HexOfRight(m) == hexdigest(IF m = "MD5" THEN md5(Utf8(Right)) ELSE sha1(Utf8(Right)))

\* The untagged values of the earlier managers: cosmetic salt and
\* hexadecimal digest.
LegacyHex(m) == {c \o HexOfRight(m) : c \in CosmeticSalts}

\* The SHA1 digest of the doctests' password in the two encodings found
\* behind a tag: hexadecimal and base64.
Sha1OfRight == {HexOfRight("SHA1"), standard_b64encode(sha1(Utf8(Right)))}

\* A salt whose last three bytes encode as "++//" in the standard and as
\* "--__" in the URL-safe alphabet.
AlphabetSalt == <<0, 251, 239, 255>>

\* What SSHA encodes for the doctests' password and AlphabetSalt: digest
\* and salt, 24 bytes, 32 characters.
SshaRaw == sha1(Utf8(Right) \o AlphabetSalt) \o AlphabetSalt

\* Its encodings: standard, URL-safe as an earlier SSHA manager wrote it,
\* and two that mix the alphabets ("-+//" and "++/_" at the end).
SshaPayloads ==
    LET std == standard_b64encode(SshaRaw)
    IN  {std, urlsafe_b64encode(SshaRaw),
         [std EXCEPT ![29] = 45], [std EXCEPT ![32] = 95]}

\* A value of z3c.bcrypt's syntax that bcrypt rejects: "$2a$99$" and 53
\* characters, a cost above 31.
Z3cBadCost == <<36, 50, 97, 36, 57, 57, 36>> \o Tuple([i \in 1..53 |-> 46])

\* Stored values that no encodePassword call of this run produced: bare
\* tags, truncated and corrupt payloads, foreign text, values written by
\* earlier versions of the managers.
Samples ==
    {Bytes(Tag(m)) : m \in Schemes}
    \cup {Bytes(e) : e \in LegacyHex("MD5") \cup LegacyHex("SHA1")}
    \cup {Bytes(SHA1_legacy_prefix \o d) : d \in Sha1OfRight}
    \cup {Bytes(SHA1_prefix \o HexOfRight("SHA1"))}
    \cup {Bytes(SSHA_prefix \o e) : e \in SshaPayloads}
    \cup {Bytes(SHA1_legacy_prefix),
          Bytes(<<110, 111, 116, 32, 102, 114, 111, 109, 32, 104, 101, 114, 101>>),
          Bytes(SSHA_prefix \o <<97, 98, 99>>),
          Bytes(SMD5_prefix \o <<97, 98, 99>>),
          Bytes(MD5_prefix \o <<97, 98, 99>>),
          Bytes(MD5_prefix \o Tuple([i \in 1..30 |-> 122])),
          Bytes(SHA1_prefix \o Tuple([i \in 1..30 |-> 122])),
          Bytes(BCRYPT_prefix \o <<97, 98, 99>>),
          Bytes(BCRYPTKDF_prefix \o <<97, 98, 99>>),
          Bytes(BCRYPTKDF_prefix \o <<51, 51, 36, 36>>),
          Bytes(BCRYPTKDF_prefix \o <<122, 36>> \o <<97, 98, 99>> \o <<36>> \o <<97, 98, 99>>),
          Bytes(Upto(bcrypt_hashpw(Utf8(Right), Z3cSalt).s, 59)),
          bcrypt_hashpw(Utf8(Right), Z3cSalt),
          Bytes(Z3cBadCost),
          Str(MYSQL_prefix \o <<1040>>),
          Str(CRYPT_prefix \o <<33, 33, 97>>)}

(***************************************************************************)
(* The state machine: a caller that encodes a password or loads a stored    *)
(* credential, passes it through text storage, calls checkPassword and      *)
(* match on it, and drops it before it takes the next one.                  *)
(***************************************************************************)
\* No credential in hand.
NoCred == [v |-> None, by |-> "", password |-> None, salt |-> NoArg]

NoCall == [op |-> "", m |-> "", password |-> None, salt |-> NoArg,
           failure |-> ""]

\* password.py, the registry: the bcrypt managers are appended when the
\* bcrypt module could be imported.
DefaultManagers ==
    <<"Plain Text", "MD5", "SMD5", "SHA1", "SSHA">>
    \o (IF has_bcrypt THEN <<"BCRYPT", "BCRYPTKDF">> ELSE <<>>)

\* zpasswd.py: no Application is running.  The record holds the position of
\* the run in get_principal, options.managers as (name, object) pairs, the
\* locals of get_principal, the prompts read so far, the last message on
\* stderr, the exit status, the Principal made and the last line read.
NoApp ==
    [pc |-> "off", managers |-> <<>>, index |-> 0, id |-> <<>>,
     title |-> <<>>, login |-> <<>>, password |-> <<>>,
     description |-> <<>>, reads |-> <<>>, stderr |-> "", reprompts |-> 0,
     status |-> 0, password_manager_name |-> "", lines |-> <<>>,
     line |-> <<>>]

\* password.py, BCRYPTKDFPasswordManager.encodePassword: no call is in
\* progress.  The record holds the position of the call, its password and
\* salt, the rounds and keylen it has read from the manager, and the two
\* attributes as they were when the call began.
NoFrame ==
    [pc |-> "idle", password |-> None, salt |-> <<>>, rounds |-> 0,
     keylen |-> 0, entry |-> <<0, 0>>]

\* The state after the import of the modules where bcrypt and crypt are
\* installed.
Init ==
    /\ has_bcrypt = TRUE
    /\ has_crypt = TRUE
    /\ managers = DefaultManagers
    /\ utilities = <<>>
    /\ rounds = 1024
    /\ keylen = 32
    /\ cred = NoCred
    /\ call = NoCall
    /\ result = None
    /\ app = NoApp
    /\ frame = NoFrame

\* The crypt() failure modes a call on m can meet: only Crypt calls crypt().
Failures(m) == IF m = "Crypt" THEN CryptFailures ELSE {"token"}

\* m.encodePassword(password[, salt]); the caller stores what it returns.
Encode(m, password, salt, r, failure) ==
    LET res == encodePassword(m, password, salt, r, failure)
    IN  /\ cred = NoCred
        /\ result' = res
        /\ call' = [op |-> "encodePassword", m |-> m, password |-> password,
                    salt |-> salt, failure |-> failure]
        /\ cred' = IF IsRaise(res) THEN cred
                   ELSE [v |-> res, by |-> m, password |-> password,
                         salt |-> salt]
        /\ UNCHANGED <<env, rounds, keylen>>

\* The caller takes a stored value of unknown origin.
Load(e) ==
    /\ cred = NoCred
    /\ cred' = [v |-> e, by |-> "", password |-> None, salt |-> NoArg]
    /\ call' = [NoCall EXCEPT !.op = "load"]
    /\ result' = None
    /\ UNCHANGED <<env, rounds, keylen>>

\* The caller has put its question about the credential in hand.
Asked == call.op \in {"checkPassword", "match"}

\* encoded.decode(): the credential comes back from text storage.
AsText ==
    /\ ~Asked
    /\ cred.v.t = "bytes"
    /\ \A i \in 1..Len(cred.v.s) : cred.v.s[i] < 128
    /\ cred' = [cred EXCEPT !.v = Str(cred.v.s)]
    /\ call' = [NoCall EXCEPT !.op = "decode"]
    /\ result' = None
    /\ UNCHANGED <<env, rounds, keylen>>

\* encoded.encode('utf-8'): the credential as raw bytes.
AsBytes ==
    /\ ~Asked
    /\ cred.v.t = "str"
    /\ cred' = [cred EXCEPT !.v = Bytes(Utf8(cred.v.s))]
    /\ call' = [NoCall EXCEPT !.op = "encode"]
    /\ result' = None
    /\ UNCHANGED <<env, rounds, keylen>>

\* A checkPassword that keeps the rounds it read from a BCRYPTKDF credential
\* in the manager's rounds attribute.
Check_adopting(m, password, failure) ==
    /\ cred # NoCred
    /\ ~Asked
    /\ result' = checkPassword(m, cred.v, password, failure)
    /\ call' = [op |-> "checkPassword", m |-> m, password |-> password,
                salt |-> NoArg, failure |-> failure]
    /\ rounds' = IF m = "BCRYPTKDF" /\ cred.by = "BCRYPTKDF"
                 THEN IntOfHex(SplitDollar(From(cred.v.s,
                                                Len(BCRYPTKDF_prefix)))[1])
                 ELSE rounds
    /\ UNCHANGED <<env, keylen, cred>>

\* m.checkPassword(cred, password)
Check(m, password, failure) ==
    /\ cred # NoCred
    /\ ~Asked
    /\ result' = checkPassword(m, cred.v, password, failure)
    /\ call' = [op |-> "checkPassword", m |-> m, password |-> password,
                salt |-> NoArg, failure |-> failure]
    /\ UNCHANGED <<env, rounds, keylen, cred>>

\* m.match(cred)
Match(m) ==
    /\ cred # NoCred
    /\ ~Asked
    /\ result' = match(m, cred.v)
    /\ call' = [op |-> "match", m |-> m, password |-> None, salt |-> NoArg,
                failure |-> "token"]
    /\ UNCHANGED <<env, rounds, keylen, cred>>

\* The caller is done with the credential in hand.
Drop ==
    /\ cred # NoCred
    /\ cred' = NoCred
    /\ call' = NoCall
    /\ result' = None
    /\ UNCHANGED <<env, rounds, keylen>>

Next ==
    \/ \E m \in Schemes : \E password \in PasswordArgs(m), salt \in SaltArgs(m),
                             r \in 1..NumRandom, failure \in Failures(m) :
          Encode(m, password, salt, r, failure)
    \/ \E e \in Samples : Load(e)
    \/ AsText
    \/ AsBytes
    \/ \E m \in Schemes : \E password \in CheckArgs(m), failure \in Failures(m) :
          Check(m, password, failure)
    \/ \E m \in Schemes : Match(m)
    \/ Drop

Spec == Init /\ [][Next]_vars

(***************************************************************************)
(* The owner's side: the platform the modules are imported on, the          *)
(* settings of the shared BCRYPTKDF manager, the registration of the        *)
(* managers as named utilities, and the listing of the registry.            *)
(***************************************************************************)
\* The values the owner assigns to BCRYPTKDFPasswordManager.rounds: those of
\* the doctest and the default.
RoundsValues == {51, 100, 1024}

\* The values the owner assigns to BCRYPTKDFPasswordManager.keylen.
KeylenValues == {16, 32}

\* The passwords of the calls made here.
ConfigPasswords == {Str(<<>>), Str(<<97>>), Str(Right)}

\* A list of registry names as a returned value.
List(names) == [t |-> "list", s |-> names, b |-> FALSE, x |-> ""]

\* The state after the import of the modules on any platform: bcrypt and
\* crypt are installed or not.
InitConfig ==
    /\ has_bcrypt \in BOOLEAN
    /\ has_crypt \in BOOLEAN
    /\ managers = DefaultManagers
    /\ utilities = <<>>
    /\ rounds = 1024
    /\ keylen = 32
    /\ cred = NoCred
    /\ call = NoCall
    /\ result = None
    /\ app = NoApp
    /\ frame = NoFrame

\* manager.rounds = n
SetRounds(n) ==
    /\ rounds' = n
    /\ UNCHANGED <<env, keylen, cred, call, result>>

\* manager.keylen = n
SetKeylen(n) ==
    /\ keylen' = n
    /\ UNCHANGED <<env, rounds, cred, call, result>>

\* testing.py: "from zope.password.legacy import CryptPasswordManager" in a
\* try block.  legacy.py defines the class whether or not crypt could be
\* imported, so the import never fails and the name is never None.
CryptPasswordManager_imported == TRUE

\* testing.py: setUpPasswordManagers().  Six managers are provided as
\* instances; for Crypt the class itself is provided.  Providing a utility
\* again under the same name replaces it.
setUpPasswordManagers ==
    /\ utilities' =
           <<[name |-> "Plain Text", object |-> "instance"],
             [name |-> "SSHA", object |-> "instance"],
             [name |-> "MD5", object |-> "instance"],
             [name |-> "SMD5", object |-> "instance"],
             [name |-> "SHA1", object |-> "instance"],
             [name |-> "MySQL", object |-> "instance"]>>
           \o (IF CryptPasswordManager_imported
               THEN <<[name |-> "Crypt", object |-> "class"]>>
               ELSE <<>>)
    /\ call' = [NoCall EXCEPT !.op = "setUpPasswordManagers"]
    /\ result' = None
    /\ UNCHANGED <<has_bcrypt, has_crypt, managers, rounds, keylen, cred, app,
                 frame>>

\* The orders getUtilitiesFor may yield the utilities in: zope.component
\* promises none; the order of registration and its reverse stand for them.
UtilityOrders == {"registration", "reverse"}

\* zpasswd.py: the list get_password_managers(config_path) returns, as
\* names.  Without a configuration it is the registry itself; with one, the
\* utilities found, Plain Text first, or the registry when none is found.
get_password_managers(config_path, order) ==
    LET n == Len(utilities)
        found == Tuple([i \in 1..n |->
                     IF order = "reverse" THEN utilities[n + 1 - i].name
                     ELSE utilities[i].name])
        listed == SelectSeq(found, LAMBDA name : name = "Plain Text")
                  \o SelectSeq(found, LAMBDA name : name # "Plain Text")
    IN  IF config_path = "" THEN managers
        ELSE IF listed = <<>> THEN managers
        ELSE listed

\* A listing that builds its list in the registry itself.
GetPasswordManagers_inplace(config_path, order) ==
    /\ result' = List(get_password_managers(config_path, order))
    /\ managers' = get_password_managers(config_path, order)
    /\ call' = [NoCall EXCEPT !.op = "get_password_managers", !.m = config_path]
    /\ UNCHANGED <<has_bcrypt, has_crypt, utilities, rounds, keylen, cred, app,
                 frame>>

\* zpasswd.py: get_password_managers(config_path); the list it fills is a
\* new one, the registry is only read.
GetPasswordManagers(config_path, order) ==
    /\ result' = List(get_password_managers(config_path, order))
    /\ call' = [NoCall EXCEPT !.op = "get_password_managers", !.m = config_path]
    /\ UNCHANGED <<env, rounds, keylen, cred>>

\* getUtility(IMatchingPasswordManager, name).encodePassword(password) on a
\* utility that is a class: the function is called without an instance, the
\* password takes the place of self and the call raises TypeError.
EncodeOnClass(i, password) ==
    /\ i \in DOMAIN utilities
    /\ utilities[i].object = "class"
    /\ cred = NoCred
    /\ result' = Raise("TypeError")
    /\ call' = [op |-> "encodePassword", m |-> utilities[i].name,
                password |-> password, salt |-> NoArg, failure |-> "token"]
    /\ UNCHANGED <<env, rounds, keylen, cred>>

NextConfig ==
    \/ \E n \in RoundsValues : SetRounds(n)
    \/ \E n \in KeylenValues : SetKeylen(n)
    \/ setUpPasswordManagers
    \/ \E config_path \in {"", "site.zcml"}, order \in UtilityOrders :
          GetPasswordManagers(config_path, order)
    \/ \E m \in Schemes : \E password \in ConfigPasswords, r \in 1..NumRandom :
          Encode(m, password, NoArg, r, "token")
    \/ \E i \in 1..Len(utilities) : \E password \in ConfigPasswords :
          EncodeOnClass(i, password)
    \/ \E password \in ConfigPasswords : Check(cred.by, password, "token")
    \/ Match(cred.by)
    \/ Drop

SpecConfig == InitConfig /\ [][NextConfig]_vars

(***************************************************************************)
(* zpasswd.py: the interactive run that collects and prints a principal.    *)
(***************************************************************************)
\* The most re-prompts one run is followed through.
MaxReprompts == 1

\* The characters str.strip() and str.split() take for whitespace.
Whitespace ==
    (9..13) \cup (28..32) \cup {133, 160, 5760} \cup (8192..8202)
    \cup {8232, 8233, 8239, 8287, 12288}

\* str.strip(): the text without its leading and trailing whitespace.
strip(s) ==
    LET keep == {i \in 1..Len(s) : s[i] \notin Whitespace}
    IN  IF keep = {} THEN <<>>
        ELSE SubSeq(s, CHOOSE i \in keep : \A j \in keep : i <= j,
                       CHOOSE i \in keep : \A j \in keep : i >= j)

\* str.split(): the maximal runs of characters that are not whitespace.
split(s) ==
    LET starts == {i \in 1..Len(s) :
                      s[i] \notin Whitespace
                      /\ (i = 1 \/ s[i - 1] \in Whitespace)}
        end(i) == CHOOSE j \in i..Len(s) :
                      /\ \A k \in i..j : s[k] \notin Whitespace
                      /\ (j = Len(s) \/ s[j + 1] \in Whitespace)
        nth(k) == CHOOSE i \in starts :
                      Cardinality({h \in starts : h < i}) = k - 1
    IN  Tuple([k \in 1..Cardinality(starts) |->
                  SubSeq(s, nth(k), end(nth(k)))])

\* The characters int() reads as decimal digits: ASCII and Arabic-Indic.
Decimals == (48..57) \cup (1632..1641)

\* str.isdigit(): every character is a digit, and there is at least one.
\* Superscript two, three and one are digits that are not decimal.
isdigit(s) ==
    /\ Len(s) > 0
    /\ \A i \in 1..Len(s) : s[i] \in Decimals \cup {178, 179, 185}

\* int(s) for a text of decimal digits.
RECURSIVE int(_)
int(s) ==
    IF s = <<>> THEN 0
    ELSE LET c == s[Len(s)]
         IN  10 * int(SubSeq(s, 1, Len(s) - 1))
             + (IF c >= 1632 THEN c - 1632 ELSE c - 48)

\* zpasswd.py, get_password_manager: the loop that lists the managers and
\* picks the default index; i counts from 0 as enumerate does.
RECURSIVE default_manager(_, _, _)
default_manager(names, i, default) ==
    IF i >= Len(names) THEN default
    ELSE default_manager(names, i + 1,
             IF names[i + 1] = "BCRYPT" THEN i
             ELSE IF names[i + 1] = "SSHA" /\ default = 0 THEN i
             ELSE default)

\* zpasswd.py, get_password_manager: what one line read at the prompt leads
\* to: a selected index, another prompt, or the exception int() raises.
get_password_manager(names, line) ==
    IF line = <<>>
    THEN [outcome |-> "selected", index |-> default_manager(names, 0, 0)]
    ELSE IF isdigit(line)
    THEN IF \E i \in 1..Len(line) : line[i] \notin Decimals
         THEN [outcome |-> "ValueError", index |-> 0]
         ELSE IF int(line) > 0 /\ int(line) <= Len(names)
         THEN [outcome |-> "selected", index |-> int(line) - 1]
         ELSE [outcome |-> "again", index |-> 0]
    ELSE [outcome |-> "again", index |-> 0]

\* A password check that looks at the ends of the password only.
password_has_spaces_ends(password) == password # strip(password)

\* zpasswd.py, get_password: the test behind "Password may not contain
\* spaces".
password_has_spaces(password) ==
    password # strip(password) \/ split(password) # <<password>>

\* A run that asks for the password before the login.
get_principal_password_first(pc) ==
    CASE pc = "id" -> "title"
      [] pc = "title" -> "manager"
      [] pc = "manager" -> "password"
      [] pc = "password" -> "verify"
      [] pc = "verify" -> "login"
      [] pc = "login" -> "description"
      [] OTHER -> "done"

\* zpasswd.py, get_principal and get_password: the prompt that follows the
\* prompt pc once its input is accepted.
get_principal(pc) ==
    CASE pc = "id" -> "title"
      [] pc = "title" -> "login"
      [] pc = "login" -> "manager"
      [] pc = "manager" -> "password"
      [] pc = "password" -> "verify"
      [] pc = "verify" -> "description"
      [] OTHER -> "done"

\* zpasswd.py, Principal.getLines: the attributes of the principal element,
\* in the order they are written.
Principal_getLines(description, password_manager_name) ==
    <<"id", "title", "login", "password">>
    \o (IF description # <<>> THEN <<"description">> ELSE <<>>)
    \o (IF password_manager_name # "Plain Text"
        THEN <<"password_manager">> ELSE <<>>)

\* The utilities a site configuration provides, in the order of their
\* registration: none, those of testing.py, and three short ones.
SiteUtilities ==
    LET instances(names) ==
            Tuple([i \in 1..Len(names) |->
                      [name |-> names[i], object |-> "instance"]])
    IN  {<<>>,
         instances(<<"Plain Text", "SSHA", "MD5", "SMD5", "SHA1", "MySQL">>)
             \o <<[name |-> "Crypt", object |-> "class"]>>,
         instances(<<"BCRYPT", "SSHA">>),
         instances(<<"MD5", "SHA1">>),
         instances(<<"Crypt", "BCRYPTKDF", "MySQL">>)}

\* The lines typed at the Id, Title, Login and Description prompts.
ValueLines == {<<>>, <<105>>, <<32, 105, 9>>}

\* The lines typed at the password manager prompt: nothing, HI, 0, 1, 2, 3,
\* 7, 8, 01, an Arabic-Indic 2, a superscript 2, and " 1".
ManagerLines ==
    {<<>>, <<72, 73>>, <<48>>, <<49>>, <<50>>, <<51>>, <<55>>, <<56>>,
     <<48, 49>>, <<1634>>, <<178>>, <<32, 49>>}

\* The lines typed at the two password prompts.
PasswordLines ==
    {<<>>, <<97>>, <<98>>, <<32, 97>>, <<97, 9, 98>>, <<97, 160, 98>>,
     <<97, 8203, 98>>, <<32>>}

\* zpasswd.py, parse_args and Application.__init__: the run starts with
\* options.managers = get_password_managers(options.config).
InitZpasswd ==
    /\ has_bcrypt = TRUE
    /\ has_crypt = TRUE
    /\ managers = DefaultManagers
    /\ utilities \in SiteUtilities
    /\ rounds = 1024
    /\ keylen = 32
    /\ cred = NoCred
    /\ call = NoCall
    /\ result = None
    /\ frame = NoFrame
    /\ \E config_path \in {"", "site.zcml"}, order \in UtilityOrders :
          app = [NoApp EXCEPT
                    !.pc = "id",
                    !.managers = get_password_managers(config_path, order)]

\* A prompt is put again after a message on stderr.
Reprompt(message, line) ==
    /\ app.reprompts < MaxReprompts
    /\ app' = [app EXCEPT !.reads = Append(@, app.pc),
                          !.line = line,
                          !.stderr = message,
                          !.reprompts = @ + 1]
    /\ UNCHANGED <<has_bcrypt, has_crypt, managers, utilities, rounds,
                   keylen, cred, call, result, frame>>

\* The input at the prompt is taken and the run moves on with new locals.
Proceed(next, line) ==
    /\ app' = [next EXCEPT !.reads = Append(@, app.pc), !.line = line]
    /\ UNCHANGED <<has_bcrypt, has_crypt, managers, utilities, rounds,
                   keylen, cred, call, result, frame>>

\* zpasswd.py, get_value with an error message: Id, Title and Login.
GetValue(line) ==
    /\ app.pc \in {"id", "title", "login"}
    /\ IF strip(line) = <<>>
       THEN Reprompt(CASE app.pc = "id" -> "Id may not be empty"
                       [] app.pc = "title" -> "Title may not be empty"
                       [] OTHER -> "Login may not be empty", line)
       ELSE Proceed([app EXCEPT ![app.pc] = strip(line),
                                !.pc = get_principal(app.pc)], line)

\* zpasswd.py, get_password_manager: one line read at its prompt.
GetPasswordManager(line) ==
    /\ app.pc = "manager"
    /\ LET got == get_password_manager(app.managers, line)
       IN  CASE got.outcome = "selected" ->
                    Proceed([app EXCEPT
                        !.index = got.index,
                        !.password_manager_name = app.managers[got.index + 1],
                        !.pc = get_principal(app.pc)], line)
             [] got.outcome = "again" ->
                    Reprompt("You must select a password manager", line)
             [] OTHER ->
                    Proceed([app EXCEPT !.pc = "raised",
                                        !.stderr = got.outcome], line)

\* zpasswd.py, get_password: one line read at the Password prompt.
GetPassword(line) ==
    /\ app.pc = "password"
    /\ IF line = <<>> THEN Reprompt("Password may not be empty", line)
       ELSE IF password_has_spaces(line)
       THEN Reprompt("Password may not contain spaces", line)
       ELSE Proceed([app EXCEPT !.password = line,
                                !.pc = get_principal(app.pc)], line)

\* zpasswd.py, get_password: the line read at the Verify prompt;
\* sys.exit(1) ends the run where it differs.
VerifyPassword(line) ==
    /\ app.pc = "verify"
    /\ IF line # app.password
       THEN Proceed([app EXCEPT !.pc = "exit", !.status = 1,
                                !.stderr = "Password not verified!"], line)
       ELSE Proceed([app EXCEPT !.pc = get_principal(app.pc)], line)

\* zpasswd.py, get_principal from the Description prompt on, and process:
\* the password is encoded by the manager selected, the Principal is made
\* and printed.  A manager that a configuration registered as a class (the
\* list is then not the registry) raises TypeError, and a password that is
\* text has no decode().
GetDescription(line, r) ==
    /\ app.pc = "description"
    /\ LET name == app.password_manager_name
           class == \E i \in DOMAIN utilities :
                        /\ utilities[i] = [name |-> name, object |-> "class"]
                        /\ app.managers # managers
           password == IF class THEN Raise("TypeError")
                       ELSE encodePassword(name, Str(app.password), NoArg, r,
                                           "token")
           printed == IF IsRaise(password) THEN password
                      ELSE IF password.t = "str" THEN Raise("AttributeError")
                      ELSE None
       IN  /\ call' = [op |-> "encodePassword", m |-> name,
                       password |-> Str(app.password), salt |-> NoArg,
                       failure |-> "token"]
           /\ result' = password
           /\ app' = [app EXCEPT
                  !.reads = Append(@, app.pc),
                  !.line = line,
                  !.description = strip(line),
                  !.pc = IF IsRaise(printed) THEN "raised" ELSE "done",
                  !.stderr = IF IsRaise(printed) THEN printed.x ELSE @,
                  !.lines = IF IsRaise(printed) THEN <<>>
                            ELSE Principal_getLines(strip(line), name)]
           /\ UNCHANGED <<has_bcrypt, has_crypt, managers, utilities, rounds,
                          keylen, cred, frame>>

NextZpasswd ==
    \/ \E line \in ValueLines : GetValue(line)
    \/ \E line \in ManagerLines : GetPasswordManager(line)
    \/ \E line \in PasswordLines : GetPassword(line)
    \/ \E line \in PasswordLines : VerifyPassword(line)
    \/ \E line \in ValueLines : \E r \in 1..NumRandom : GetDescription(line, r)

SpecZpasswd == InitZpasswd /\ [][NextZpasswd]_vars

(***************************************************************************)
(* BCRYPTKDF encodePassword as the steps of one thread, with the owner's    *)
(* assignments to rounds and keylen made by another thread between them.    *)
(***************************************************************************)
InitThreads ==
    /\ has_bcrypt = TRUE
    /\ has_crypt = TRUE
    /\ managers = DefaultManagers
    /\ utilities = <<>>
    /\ rounds = 1024
    /\ keylen = 32
    /\ cred = NoCred
    /\ call = NoCall
    /\ result = None
    /\ app = NoApp
    /\ frame = NoFrame

\* encodePassword(password) is entered: salt = bcrypt.gensalt().
KdfGensalt(password, r) ==
    /\ frame.pc \in {"idle", "returned"}
    /\ cred = NoCred
    /\ frame' = [pc |-> "salt", password |-> password,
                 salt |-> bcrypt_gensalt(r), rounds |-> 0, keylen |-> 0,
                 entry |-> <<rounds, keylen>>]
    /\ UNCHANGED <<has_bcrypt, has_crypt, managers, utilities, app, rounds,
                   keylen, cred, call, result>>

\* The argument self.rounds is evaluated.
KdfReadRounds ==
    /\ frame.pc = "salt"
    /\ frame' = [frame EXCEPT !.pc = "rounds", !.rounds = rounds]
    /\ UNCHANGED <<has_bcrypt, has_crypt, managers, utilities, app, rounds,
                   keylen, cred, call, result>>

\* The argument self.keylen is evaluated.
KdfReadKeylen ==
    /\ frame.pc = "rounds"
    /\ frame' = [frame EXCEPT !.pc = "keylen", !.keylen = keylen]
    /\ UNCHANGED <<has_bcrypt, has_crypt, managers, utilities, app, rounds,
                   keylen, cred, call, result>>

\* self._encode(password, salt, rounds, keylen) runs on the values read and
\* encodePassword returns.
KdfEncode ==
    LET res == BCRYPTKDFPasswordManager__encode(frame.password, frame.salt,
                                                frame.rounds, frame.keylen)
    IN  /\ frame.pc = "keylen"
        /\ frame' = [frame EXCEPT !.pc = "returned"]
        /\ result' = res
        /\ call' = [op |-> "encodePassword", m |-> "BCRYPTKDF",
                    password |-> frame.password, salt |-> NoArg,
                    failure |-> "token"]
        /\ cred' = IF IsRaise(res) THEN cred
                   ELSE [v |-> res, by |-> "BCRYPTKDF",
                         password |-> frame.password, salt |-> NoArg]
        /\ UNCHANGED <<has_bcrypt, has_crypt, managers, utilities, app,
                       rounds, keylen>>

NextThreads ==
    \/ \E password \in ConfigPasswords, r \in 1..NumRandom :
          KdfGensalt(password, r)
    \/ KdfReadRounds
    \/ KdfReadKeylen
    \/ KdfEncode
    \/ \E n \in RoundsValues : SetRounds(n)
    \/ \E n \in KeylenValues : SetKeylen(n)
    \/ \E password \in ConfigPasswords : Check("BCRYPTKDF", password, "token")
    \/ Drop

SpecThreads == InitThreads /\ [][NextThreads]_vars

(***************************************************************************)
(* Properties.                                                              *)
(***************************************************************************)
\* The credential in hand is an encodePassword result, in the form the
\* manager returned it (text for Crypt, bytes for every other manager).
Native ==
    /\ cred.by # ""
    /\ cred.v.t = (IF cred.by = "Crypt" THEN "str" ELSE "bytes")

\* The credential in hand was made by the manager now asked, from a text
\* password, with a salt the manager generated itself.
OwnCredential ==
    /\ Native
    /\ cred.by = call.m
    /\ cred.salt = NoArg
    /\ cred.password.t = "str"

\* C1: round trip.  For every manager S and every password p, text or
\* bytes, that S.encodePassword turned into a credential,
\* S.checkPassword(S.encodePassword(p), p) is true, whatever salt
\* encodePassword generated.
C1_RoundTrip ==
    (/\ call.op = "checkPassword"
     /\ Native /\ cred.by = call.m /\ cred.salt = NoArg
     /\ call.password = cred.password)
        => IsTrue(result)

\* C1 witness: BCRYPTKDF has accepted the password of its own credential.
C1_Witness ==
    /\ call.op = "checkPassword" /\ OwnCredential
    /\ call.password = cred.password
    /\ call.m = "BCRYPTKDF"
    /\ IsTrue(result)

\* The bytes of a password with every space and tab removed.
Unspaced(bs) == SelectSeq(bs, LAMBDA c : c # 32 /\ c # 9)

\* The DES key crypt() makes of a password: the low 7 bits of each of its
\* first 8 bytes, missing bytes counting as 0.
CryptKey(bs) == Tuple([i \in 1..8 |-> IF i <= Len(bs) THEN bs[i] % 128 ELSE 0])

\* C2 as stated: wrong password rejected.  For every manager S (MySQL
\* included) and text passwords p, q whose UTF-8 bytes differ (for Crypt:
\* whose first 8 bytes differ), S.checkPassword(S.encodePassword(p), q) is
\* false.
C2_WrongPasswordRejected ==
    (/\ call.op = "checkPassword" /\ OwnCredential
     /\ call.password.t = "str"
     /\ Utf8(call.password.s) # Utf8(cred.password.s)
     /\ (call.m = "Crypt" =>
            Upto(Utf8(call.password.s), 8) # Upto(Utf8(cred.password.s), 8)))
        => IsFalse(result)

\* C2 amended: S.checkPassword(S.encodePassword(p), q) is never true for
\* text passwords p, q whose UTF-8 bytes differ, where for MySQL they must
\* still differ once every space and tab byte is removed, for Crypt they
\* must differ in the low 7 bits of one of their first 8 bytes, and for
\* BCRYPT they must differ within their first 72 bytes.  The call returns
\* false, except that BCRYPTKDF raises ValueError when q is empty.
C2_WrongPasswordRejected_Amended ==
    LET p == Utf8(cred.password.s)
        q == Utf8(call.password.s)
    IN  (/\ call.op = "checkPassword" /\ OwnCredential
         /\ call.password.t = "str"
         /\ p # q
         /\ (call.m = "MySQL" => Unspaced(p) # Unspaced(q))
         /\ (call.m = "Crypt" => CryptKey(p) # CryptKey(q))
         /\ (call.m = "BCRYPT" =>
                Upto(p, BcryptMaxPassword) # Upto(q, BcryptMaxPassword)))
            => IF call.m = "BCRYPTKDF" /\ q = <<>>
               THEN result = Raise("ValueError")
               ELSE IsFalse(result)

\* C2 witness: SSHA has rejected a password that differs from the one its
\* credential was made from.
C2_Witness ==
    /\ call.op = "checkPassword" /\ OwnCredential
    /\ call.m = "SSHA"
    /\ call.password = Str(RightWrong)
    /\ cred.password = Str(Right)
    /\ IsFalse(result)

\* C3: PlainTextPasswordManager.match is false for every input, its own
\* encodePassword output and every other manager's credential included.
C3_PlainTextNeverMatches ==
    (call.op = "match" /\ call.m = "Plain Text") => IsFalse(result)

\* C3 witness: Plain Text was asked about its own encodePassword output.
C3_Witness ==
    /\ call.op = "match" /\ call.m = "Plain Text"
    /\ Native /\ cred.by = "Plain Text"
    /\ IsFalse(result)

\* C4: self-recognition.  For every manager S other than Plain Text, every
\* password and every salt, S.match(S.encodePassword(p)) is true and the
\* output starts with S's tag.
C4_SelfRecognition ==
    (call.op = "match" /\ Native /\ cred.by = call.m /\ call.m # "Plain Text")
        => (IsTrue(result) /\ StartsWith(cred.v.s, Tag(call.m)))

\* C4 witness: BCRYPT has recognised a credential it made with its own salt.
C4_Witness ==
    /\ call.op = "match" /\ Native /\ cred.by = call.m
    /\ call.m = "BCRYPT" /\ cred.salt = NoArg
    /\ IsTrue(result)

\* C5 as stated: ownership is exclusive.  For every byte string e at most
\* one of MD5, SMD5, SHA1, SSHA, MySQL, Crypt, BCRYPT and BCRYPTKDF returns
\* match(e) = true, and A.match(B.encodePassword(p)) is false for any two
\* different managers A and B among them.
C5_ExclusiveOwnership ==
    (call.op = "match" /\ cred.v.t = "bytes" /\ call.m # "Plain Text")
        => /\ IsTrue(result)
                => \A m \in Schemes \ {call.m} : ~IsTrue(match(m, cred.v))
           /\ (Native /\ cred.by \notin {call.m, "Plain Text"})
                => IsFalse(result)

\* C6 as stated: for every manager S, every byte string e with
\* S.match(e) = false and every password, S.checkPassword(e, p) returns a
\* boolean instead of raising.
C6_CheckNeverRaisesOnForeign ==
    (/\ call.op = "checkPassword"
     /\ cred.v.t = "bytes"
     /\ call.password.t = "str"
     /\ IsFalse(match(call.m, cred.v)))
        => result.t = "bool"

\* C7 as stated: no cross-scheme acceptance.  For two different managers A
\* and B, A.checkPassword(B.encodePassword(p, s), q) is never true.
C7_NoCrossSchemeAcceptance ==
    (call.op = "checkPassword" /\ Native /\ cred.by # call.m)
        => ~IsTrue(result)

\* The stored values of unknown origin whose payload is well formed.
WellFormedSamples ==
    {bcrypt_hashpw(Utf8(Right), Z3cSalt)}
    \cup {Bytes(e) : e \in LegacyHex("MD5") \cup LegacyHex("SHA1")}
    \cup {Bytes(SHA1_legacy_prefix \o d) : d \in Sha1OfRight}
    \cup {Bytes(SHA1_prefix \o HexOfRight("SHA1"))}
    \cup {Bytes(SSHA_prefix \o e) : e \in SshaPayloads}

\* C8 as stated: a corrupt payload under a recognised tag yields false.  For
\* every manager S and every credential e with S.match(e) = true whose
\* payload is malformed, S.checkPassword(e, p) returns false.
C8_CorruptPayloadIsFalse ==
    (/\ call.op = "checkPassword"
     /\ cred.by = "" /\ cred.v \notin WellFormedSamples
     /\ call.password.t = "str"
     /\ IsTrue(match(call.m, cred.v)))
        => IsFalse(result)

\* C9 as stated: match is total.  For every manager and every encoded value
\* given as bytes or as text, match returns true or false and never raises.
C9_MatchIsTotal == call.op = "match" => result.t = "bool"

\* C10 as stated: text/bytes equivalence.  encodePassword accepts a bytes
\* password, and checkPassword and match give the same result for a
\* credential passed as text as for its UTF-8 bytes.
C10_TextBytesEquivalence ==
    /\ (call.op = "encodePassword" /\ call.password.t = "bytes"
        /\ call.salt = NoArg)
           => ~IsRaise(result)
    /\ (call.op = "checkPassword" /\ cred.by = call.m /\ cred.v.t = "str")
           => result = checkPassword(call.m, Bytes(Utf8(cred.v.s)),
                                     call.password, call.failure)
    /\ (call.op = "match" /\ cred.v.t = "str")
           => result = match(call.m, Bytes(Utf8(cred.v.s)))

\* C11 as stated: for every manager and every encoded value, whether or not
\* the manager matches it, checkPassword(encoded, None) never returns false:
\* it fails with an error.
C11_NoneNeverFalse ==
    (call.op = "checkPassword" /\ call.password = None) => IsRaise(result)

\* C11 amended: checkPassword(encoded, None) never returns true.  It fails
\* with an error for every manager and every encoded value, except that
\* BCRYPT and BCRYPTKDF return false for an encoded value they do not match.
C11_NoneNeverTrue ==
    (call.op = "checkPassword" /\ call.password = None)
        => IF call.m \in {"BCRYPT", "BCRYPTKDF"} /\ IsFalse(match(call.m, cred.v))
           THEN IsFalse(result)
           ELSE IsRaise(result)

\* C11 witness: SSHA was asked to check None against its own credential and
\* raised TypeError.
C11_Witness ==
    /\ call.op = "checkPassword" /\ call.password = None
    /\ call.m = "SSHA" /\ Native /\ cred.by = "SSHA"
    /\ result = Raise("TypeError")

\* The bytes a salt argument stands for: a text salt is its UTF-8 encoding.
SaltBytes(salt) == IF salt.t = "bytes" THEN salt.s ELSE Utf8(salt.s)

\* The salted managers that take the salt as an argument.
Salted == {"SMD5", "SSHA", "BCRYPT"}

\* C12 as stated: salt determinism.  For SMD5, SSHA and BCRYPT and a fixed
\* password p, encodePassword(p, s1) = encodePassword(p, s2) exactly when s1
\* and s2 are the same bytes once a text salt is replaced by its UTF-8
\* encoding.
C12_SaltDeterminism ==
    (/\ call.op = "encodePassword" /\ call.m \in Salted
     /\ call.salt # NoArg /\ ~IsRaise(result))
        => \A s2 \in SaltArgs(call.m) \ {NoArg} :
              LET other == encodePassword(call.m, call.password, s2, 1, "token")
              IN  ~IsRaise(other)
                    => ((result = other) <=> (SaltBytes(call.salt) = SaltBytes(s2)))

\* C12 amended: for SMD5 and SSHA the two outputs are equal exactly when the
\* salts are the same bytes after UTF-8 encoding of a text salt.  For BCRYPT
\* they are equal whenever the salts agree in their first 29 bytes, and
\* differ whenever the salts differ within their first 28 bytes.
C12_SaltDeterminism_Amended ==
    (/\ call.op = "encodePassword" /\ call.m \in Salted
     /\ call.salt # NoArg /\ ~IsRaise(result))
        => \A s2 \in SaltArgs(call.m) \ {NoArg} :
              LET other == encodePassword(call.m, call.password, s2, 1, "token")
                  b1 == SaltBytes(call.salt)
                  b2 == SaltBytes(s2)
              IN  ~IsRaise(other)
                    => IF call.m = "BCRYPT"
                       THEN /\ Upto(b1, BcryptSaltLen) = Upto(b2, BcryptSaltLen)
                                 => result = other
                            /\ Upto(b1, BcryptSaltLen - 1) # Upto(b2, BcryptSaltLen - 1)
                                 => result # other
                       ELSE (result = other) <=> (b1 = b2)

\* C12 witness: SSHA has encoded a password with the text salt "salt"; the
\* bytes salt b"salt" gives the same output and the empty salt another one.
C12_Witness ==
    /\ call.op = "encodePassword" /\ call.m = "SSHA"
    /\ call.salt = Str(SaltText) /\ ~IsRaise(result)
    /\ result = encodePassword("SSHA", call.password, Bytes(SaltText), 1, "token")
    /\ result # encodePassword("SSHA", call.password, Str(<<>>), 1, "token")

\* The managers whose scheme has no salt.
Unsalted == {"Plain Text", "MD5", "SHA1", "MySQL"}

\* C13 as stated: uniform encode signature.  Every manager's encodePassword
\* accepts an optional salt, and for Plain Text, MD5, SHA1 and MySQL
\* encodePassword(p, salt=s) returns what encodePassword(p) returns.
C13_UniformEncodeSignature ==
    (/\ call.op = "encodePassword" /\ call.salt # NoArg
     /\ call.password.t = "str" /\ call.m \in Unsalted)
        => /\ ~IsRaise(result)
           /\ result = encodePassword(call.m, call.password, NoArg, 1, "token")

\* C13 amended: SMD5, SSHA, Crypt and BCRYPT accept an optional salt and
\* encode with it; MD5 and SHA1 accept an optional salt and ignore it, so
\* encodePassword(p, salt=s) returns what encodePassword(p) returns; Plain
\* Text, MySQL and BCRYPTKDF take the password alone, and a call that passes
\* a salt fails with TypeError.
C13_EncodeSignature ==
    (call.op = "encodePassword" /\ call.salt # NoArg /\ call.password.t = "str")
        => /\ call.m \in {"MD5", "SHA1"}
                => /\ ~IsRaise(result)
                   /\ result = encodePassword(call.m, call.password, NoArg, 1, "token")
           /\ call.m \in {"Plain Text", "MySQL", "BCRYPTKDF"}
                => result = Raise("TypeError")
           /\ call.m \in {"SMD5", "SSHA"} => ~IsRaise(result)
           /\ (call.m = "BCRYPT" /\ BcryptValidSalt(SaltBytes(call.salt)))
                => ~IsRaise(result)
           /\ (call.m = "Crypt" /\ call.salt = Str(<<101, 114>>))
                => ~IsRaise(result)

\* C13 witness: MD5 was given a salt and returned the same credential as
\* without one.
C13_Witness ==
    /\ call.op = "encodePassword" /\ call.m = "MD5"
    /\ call.salt = Str(SaltText) /\ call.password = Str(Right)
    /\ result = encodePassword("MD5", Str(Right), NoArg, 1, "token")
    /\ ~IsRaise(result)

\* The digest manager m (MD5 or SHA1) takes of a password argument.
DigestOf(m, password) ==
    IF m = "MD5" THEN md5(_encoder(password).s) ELSE sha1(_encoder(password).s)

\* The credential in hand is an untagged value of an earlier version of the
\* manager now asked: a cosmetic salt and the hexadecimal digest of Right.
LegacyHexInHand ==
    /\ call.m \in {"MD5", "SHA1"}
    /\ cred.by = ""
    /\ cred.v.s \in LegacyHex(call.m)

\* C14: legacy hexadecimal values of MD5 and SHA1.  For every cosmetic
\* prefix c, the empty one included, checkPassword(c + hex(digest(p)), q) is
\* true exactly when digest(q) = digest(p), and false otherwise; match of
\* such an untagged value is false.
C14_LegacyHex ==
    /\ (call.op = "checkPassword" /\ LegacyHexInHand /\ call.password # None)
          => result = Bool(DigestOf(call.m, call.password)
                             = DigestOf(call.m, Str(Right)))
    /\ (call.op = "match" /\ LegacyHexInHand) => IsFalse(result)

\* C14 witness: SHA1 has accepted the right password for a hexadecimal
\* digest behind the cosmetic salt "salt".
C14_Witness ==
    /\ call.op = "checkPassword" /\ call.m = "SHA1"
    /\ cred.v = Bytes(SaltText \o HexOfRight("SHA1"))
    /\ call.password = Str(Right)
    /\ IsTrue(result)

\* The credential in hand carries the tag {SHA1} in front of a SHA1 digest
\* of Right, and SHA1 is asked.
LegacyTagInHand ==
    /\ call.m = "SHA1"
    /\ cred.by = ""
    /\ \E d \in Sha1OfRight : cred.v.s = SHA1_legacy_prefix \o d

\* C15: the SHA1 legacy tag.  A value that starts with {SHA1}, followed by a
\* hexadecimal or a base64 digest, is matched by SHA1, and checkPassword is
\* true for the password of the digest and false for any other, exactly as
\* for the same digest behind {SHA}.
C15_LegacyTag ==
    LET d == From(cred.v.s, Len(SHA1_legacy_prefix))
    IN  /\ (call.op = "match" /\ LegacyTagInHand)
              => /\ IsTrue(result)
                 /\ result = match("SHA1", Bytes(SHA1_prefix \o d))
        /\ (call.op = "checkPassword" /\ LegacyTagInHand /\ call.password # None)
              => /\ result = Bool(DigestOf("SHA1", call.password)
                                    = DigestOf("SHA1", Str(Right)))
                 /\ result = checkPassword("SHA1", Bytes(SHA1_prefix \o d),
                                           call.password, call.failure)

\* C15 witness: SHA1 has rejected a wrong password for a base64 digest
\* behind {SHA1}.
C15_Witness ==
    /\ call.op = "checkPassword" /\ call.m = "SHA1"
    /\ cred.v = Bytes(SHA1_legacy_prefix \o standard_b64encode(sha1(Utf8(Right))))
    /\ call.password = Str(RightWrong)
    /\ IsFalse(result)

\* A base64 text with every URL-safe character replaced by its standard
\* counterpart: - by + and _ by /.
InStandardAlphabet(s) ==
    Tuple([i \in 1..Len(s) |->
              IF s[i] = 45 THEN 43 ELSE IF s[i] = 95 THEN 47 ELSE s[i]])

\* C16: SSHA alphabet equivalence.  For every payload b and password q,
\* SSHA.checkPassword of {SSHA} + URL-safe base64 of b, or of a payload that
\* mixes the two alphabets, gives what SSHA.checkPassword gives for {SSHA} +
\* standard base64 of b.
C16_AlphabetEquivalence ==
    (/\ call.op = "checkPassword" /\ call.m = "SSHA"
     /\ StartsWith(cred.v.s, SSHA_prefix))
        => result = checkPassword("SSHA", Bytes(InStandardAlphabet(cred.v.s)),
                                  call.password, call.failure)

\* C16 witness: SSHA has accepted the right password for a payload in the
\* URL-safe alphabet that the standard alphabet writes differently.
C16_Witness ==
    /\ call.op = "checkPassword" /\ call.m = "SSHA"
    /\ cred.v = Bytes(SSHA_prefix \o urlsafe_b64encode(SshaRaw))
    /\ urlsafe_b64encode(SshaRaw) # standard_b64encode(SshaRaw)
    /\ call.password = Str(Right)
    /\ IsTrue(result)

\* C18: BCRYPT accepts bare hashes.  For a value of the form $2a$, two
\* digits, $, 53 characters of ./A-Za-z0-9, without any tag, BCRYPT.match is
\* true and BCRYPT.checkPassword gives what it gives for the same value
\* behind {BCRYPT}.
C18_BareBcrypt ==
    (call.m = "BCRYPT" /\ _z3c_bcrypt_syntax(cred.v.s))
        => /\ call.op = "match" => IsTrue(result)
           /\ call.op = "checkPassword"
                => result = checkPassword("BCRYPT",
                                [cred.v EXCEPT !.s = BCRYPT_prefix \o cred.v.s],
                                call.password, call.failure)

\* C18 witness: BCRYPT has accepted the right password for a bare hash.
C18_Witness ==
    /\ call.op = "checkPassword" /\ call.m = "BCRYPT"
    /\ cred.v = bcrypt_hashpw(Utf8(Right), Z3cSalt)
    /\ call.password = Str(Right)
    /\ IsTrue(result)

\* The credential in hand was made by BCRYPTKDF, which is now asked to
\* check a text password against it.
KdfOwnCredential ==
    /\ call.op = "checkPassword" /\ call.m = "BCRYPTKDF"
    /\ Native /\ cred.by = "BCRYPTKDF"
    /\ call.password.t = "str"

MissingPrimitive(m) ==
    \/ m \in {"BCRYPT", "BCRYPTKDF"} /\ ~has_bcrypt
    \/ m = "Crypt" /\ ~has_crypt

\* The names under which a manager is registered, in the registry or as a
\* utility.
RegisteredNames ==
    {managers[i] : i \in DOMAIN managers}
    \cup {utilities[i].name : i \in DOMAIN utilities}

\* C19 as stated: the registry lists its pairs in the fixed order Plain
\* Text, MD5, SMD5, SHA1, SSHA, MySQL, Crypt (if available), BCRYPT,
\* BCRYPTKDF, and every later enumeration yields the same sequence.
C19_RegistryOrder ==
    LET order == <<"Plain Text", "MD5", "SMD5", "SHA1", "SSHA", "MySQL">>
                 \o (IF has_crypt THEN <<"Crypt">> ELSE <<>>)
                 \o (IF has_bcrypt THEN <<"BCRYPT", "BCRYPTKDF">> ELSE <<>>)
    IN  /\ managers = order
        /\ (call.op = "get_password_managers" /\ call.m = "")
              => result = List(order)

\* C19 amended: the registry lists its pairs in the fixed order Plain Text,
\* MD5, SMD5, SHA1, SSHA, followed by BCRYPT and BCRYPTKDF where bcrypt is
\* installed; MySQL and Crypt are not in it.  Every later enumeration
\* yields the same sequence.
C19_RegistryOrder_Amended ==
    LET order == <<"Plain Text", "MD5", "SMD5", "SHA1", "SSHA">>
                 \o (IF has_bcrypt THEN <<"BCRYPT", "BCRYPTKDF">> ELSE <<>>)
    IN  /\ managers = order
        /\ (call.op = "get_password_managers" /\ call.m = "")
              => result = List(order)

\* C19 witness: the registry was listed, without bcrypt installed, after
\* utilities were set up and listed from a configuration.
C19_Witness ==
    /\ call.op = "get_password_managers" /\ call.m = ""
    /\ ~has_bcrypt
    /\ utilities # <<>>
    /\ result = List(<<"Plain Text", "MD5", "SMD5", "SHA1", "SSHA">>)

\* C20 as stated: where bcrypt or crypt is not installed, the managers that
\* depend on it (BCRYPT, BCRYPTKDF, Crypt) are absent from the registry and
\* from the registered utilities, the others keep their order, and no
\* encodePassword or checkPassword call on a registered manager fails for
\* the missing primitive.
C20_UnavailablePrimitives ==
    /\ \A m \in RegisteredNames : ~MissingPrimitive(m)
    /\ SubSeq(managers, 1, 5) = <<"Plain Text", "MD5", "SMD5", "SHA1", "SSHA">>
    /\ (utilities # <<>>)
          => SubSeq(utilities, 1, 6)
               = <<[name |-> "Plain Text", object |-> "instance"],
                   [name |-> "SSHA", object |-> "instance"],
                   [name |-> "MD5", object |-> "instance"],
                   [name |-> "SMD5", object |-> "instance"],
                   [name |-> "SHA1", object |-> "instance"],
                   [name |-> "MySQL", object |-> "instance"]>>
    /\ (/\ call.op \in {"encodePassword", "checkPassword"}
        /\ call.m \in RegisteredNames
        /\ MissingPrimitive(call.m))
          => ~IsRaise(result)

\* C21 as stated: every checkPassword path of Plain Text, MD5, SMD5, SHA1
\* (tagged and untagged), SSHA, MySQL, Crypt and BCRYPTKDF compares the
\* freshly computed value with the stored one through the constant-time
\* primitive, never through ordinary equality.
C21_ConstantTimeComparison ==
    (call.op = "checkPassword" /\ call.m # "BCRYPT")
        => comparison(call.m, cred.v, call.password, call.failure)
             \in {"none", "compare_digest"}

\* C22: MySQL ignores spaces and tabs.  For every password p,
\* MySQL.encodePassword(p) equals MySQL.encodePassword(p') where p' is p
\* with every space and every tab removed, wherever they stand.
C22_MySQLIgnoresBlanks ==
    (/\ call.op = "encodePassword" /\ call.m = "MySQL"
     /\ call.password.t = "str" /\ call.salt = NoArg)
        => result = MySQLPasswordManager_encodePassword(
                        Str(Unspaced(call.password.s)))

\* C22 witness: MySQL has encoded '\tign or ed' to what it encodes
\* 'ignored' to.
C22_Witness ==
    /\ call.op = "encodePassword" /\ call.m = "MySQL"
    /\ call.password = Str(TabPassword)
    /\ Unspaced(TabPassword) = <<105, 103, 110, 111, 114, 101, 100>>
    /\ result = MySQLPasswordManager_encodePassword(Str(Unspaced(TabPassword)))
    /\ ~IsRaise(result)

\* The names of options.managers in the run.
Listed == {app.managers[i] : i \in DOMAIN app.managers}

\* The run has just taken the line typed at the password manager prompt.
ManagerLineTaken ==
    /\ app.reads # <<>>
    /\ app.reads[Len(app.reads)] = "manager"

\* C23: on an empty line get_password_manager returns the entry named
\* BCRYPT whenever the list holds one, at whatever position; otherwise the
\* entry named SSHA when there is one; otherwise the first entry.
C23_DefaultManager ==
    (ManagerLineTaken /\ app.line = <<>>)
        => /\ app.pc = "password"
           /\ app.password_manager_name =
                  IF "BCRYPT" \in Listed THEN "BCRYPT"
                  ELSE IF "SSHA" \in Listed THEN "SSHA"
                  ELSE app.managers[1]

\* The prompt whose line the run has just taken.
LastRead == IF app.reads = <<>> THEN "" ELSE app.reads[Len(app.reads)]

\* The text holds a whitespace character somewhere.
HasWhitespace(s) == \E i \in 1..Len(s) : s[i] \in Whitespace

\* C24: get_password returns a password only when it is not empty, holds no
\* whitespace anywhere and the verification is identical to it.  An empty
\* entry or one with whitespace puts an error on stderr and the prompt is
\* put again without the run ending; a verification that differs ends the
\* run with exit status 1, without another prompt.
C24_GetPassword ==
    /\ LastRead = "password"
           => IF app.line = <<>> \/ HasWhitespace(app.line)
              THEN /\ app.pc = "password"
                   /\ app.status = 0
                   /\ app.stderr = IF app.line = <<>>
                                   THEN "Password may not be empty"
                                   ELSE "Password may not contain spaces"
              ELSE app.pc = "verify" /\ app.password = app.line
    /\ LastRead = "verify"
           => IF app.line = app.password
              THEN /\ app.pc = "description"
                   /\ app.status = 0
                   /\ app.password # <<>>
                   /\ ~HasWhitespace(app.password)
              ELSE /\ app.pc = "exit"
                   /\ app.status = 1
                   /\ app.stderr = "Password not verified!"
    /\ app.pc \in {"description", "done"}
           => app.password # <<>> /\ ~HasWhitespace(app.password)

\* A password with a zero-width space is returned after an entry with
\* whitespace was turned down.
C24_Witness ==
    /\ LastRead = "verify"
    /\ app.pc = "description"
    /\ app.password = <<97, 8203, 98>>
    /\ app.line = app.password
    /\ app.stderr = "Password may not contain spaces"
    /\ app.reprompts = 1

\* The reference recurrence on 32-bit words.  A word is the pair of its low
\* and high 16 bits, so that every operation is reduced modulo 2^32.
Half == 2 ^ 16

Word(n) == <<n % Half, (n \div Half) % Half>>

WordAdd(a, b) ==
    <<(a[1] + b[1]) % Half, (a[2] + b[2] + (a[1] + b[1]) \div Half) % Half>>

WordMul(a, k) ==
    <<(a[1] * k) % Half, (a[2] * k + (a[1] * k) \div Half) % Half>>

WordShl8(a) == <<(a[1] * 256) % Half, (a[2] * 256 + a[1] \div 256) % Half>>

HalfXor(x, y) ==
    LET bit(k) == XorBit(x, y, 2 ^ k)
    IN  bit(0) + bit(1) + bit(2) + bit(3) + bit(4) + bit(5) + bit(6) + bit(7)
        + bit(8) + bit(9) + bit(10) + bit(11) + bit(12) + bit(13) + bit(14)
        + bit(15)

WordXor(a, b) == <<HalfXor(a[1], b[1]), HalfXor(a[2], b[2])>>

\* nr, nr2 and add after the bytes bs[i..], blanks and tabs skipped.
RECURSIVE Reference(_, _, _, _, _)
Reference(bs, i, nr, nr2, add) ==
    IF i > Len(bs) THEN <<nr, nr2>>
    ELSE IF bs[i] \in {32, 9} THEN Reference(bs, i + 1, nr, nr2, add)
    ELSE LET nr_ == WordXor(nr, WordAdd(WordMul(WordAdd(Word(nr[1] % 64), add),
                                                bs[i]),
                                        WordShl8(nr)))
             nr2_ == WordAdd(nr2, WordXor(WordShl8(nr2), nr_))
             add_ == WordAdd(add, Word(bs[i]))
         IN  IF nr_[2] + nr2_[2] + add_[2] >= 0  \* this step's words, now
             THEN Reference(bs, i + 1, nr_, nr2_, add_)
             ELSE <<nr_, nr2_>>

\* The low 31 bits of a word as 8 hexadecimal digits.
WordHex31(a) ==
    LET hex4(h) == <<HexDigit(h \div 4096), HexDigit((h \div 256) % 16),
                     HexDigit((h \div 16) % 16), HexDigit(h % 16)>>
    IN  hex4(a[2] % 32768) \o hex4(a[1])

\* The MySQL credential of the reference recurrence.
ReferenceCredential(bs) ==
    LET r == Reference(bs, 1, Word(1345345333), Word(305419889), Word(7))
    IN  MYSQL_prefix \o WordHex31(r[1]) \o WordHex31(r[2])

\* C25: the MySQL loop on unbounded integers yields the two 31-bit values of
\* the reference recurrence that reduces nr, nr2 and add modulo 2^32 after
\* every step, and the credential is {MYSQL} and 16 lowercase hexadecimal
\* digits.
C25_MySQLBitExact ==
    (call.op = "encodePassword" /\ call.m = "MySQL" /\ ~IsRaise(result))
        => /\ result = Bytes(ReferenceCredential(legacy_encoder(call.password).s))
           /\ Len(result.s) = Len(MYSQL_prefix) + 16
           /\ \A i \in (Len(MYSQL_prefix) + 1)..Len(result.s) :
                  result.s[i] \in (48..57) \cup (97..102)

\* A password of seven counted bytes, whose nr grows past 2^32 on the way,
\* gave the documented credential.
C25_Witness ==
    /\ call.op = "encodePassword"
    /\ call.m = "MySQL"
    /\ call.password = Str(TabPassword)
    /\ result = Bytes(MYSQL_prefix \o <<55, 53, 56, 49, 56, 51, 54, 54,
                                        48, 53, 50, 99, 54, 97, 55, 56>>)
    /\ Len(MySQLLoop(Unspaced(TabPassword), 1, NatLimbs(1345345333),
                     NatLimbs(305419889), 7)[1]) > 4

\* The step is a call of encodePassword, checkPassword or match.
ManagerCall ==
    /\ call'.op \in {"encodePassword", "checkPassword", "match"}
    /\ (call' # call \/ result' # result \/ cred' # cred)

\* C26: no call of encodePassword, checkPassword or match changes an
\* attribute of a manager, the rounds and keylen of BCRYPTKDF included, or
\* the registry list or the utilities; what a check or a match returns is
\* fixed by the credential and the arguments, whatever was called before.
C26_Frame ==
    [][ManagerCall
           => /\ rounds' = rounds
              /\ keylen' = keylen
              /\ managers' = managers
              /\ utilities' = utilities
              /\ call'.op = "checkPassword"
                     => result' = checkPassword(call'.m, cred.v,
                                                call'.password,
                                                call'.failure)
              /\ call'.op = "match" => result' = match(call'.m, cred.v)]_vars

\* BCRYPTKDF has checked a credential it made with 1024 rounds and 32 key
\* bytes after its owner set 51 rounds and 16 key bytes.
C26_Witness ==
    /\ call.op = "checkPassword"
    /\ call.m = "BCRYPTKDF"
    /\ cred.by = "BCRYPTKDF"
    /\ StartsWith(cred.v.s, BCRYPTKDF_prefix \o <<52, 48, 48, 36>>)
    /\ rounds = 51
    /\ keylen = 16
    /\ IsTrue(result)

\* The line is a decimal number: one or more decimal digits.
IsDecimalNumber(line) ==
    line # <<>> /\ \A i \in 1..Len(line) : line[i] \in Decimals

\* C27: get_password_manager returns managers[n - 1] for an input that is a
\* decimal number n with 1 <= n <= len(managers), and the default on an
\* empty line; every other input puts 'You must select a password manager'
\* on stderr and the prompt is put again; the index returned is within the
\* list.
C27_ManagerSelection ==
    LastRead = "manager"
        => IF app.line = <<>>
           THEN /\ app.pc = "password"
                /\ app.index = default_manager(app.managers, 0, 0)
                /\ app.index + 1 \in DOMAIN app.managers
           ELSE IF /\ IsDecimalNumber(app.line)
                   /\ int(app.line) \in 1..Len(app.managers)
           THEN /\ app.pc = "password"
                /\ app.index = int(app.line) - 1
                /\ app.password_manager_name = app.managers[int(app.line)]
           ELSE /\ app.pc = "manager"
                /\ app.stderr = "You must select a password manager"

\* The prompts in the order the claim gives them.
PromptOrder ==
    <<"id", "title", "login", "manager", "password", "verify", "description">>

\* The place of a prompt in that order.
Rank(prompt) == CHOOSE k \in DOMAIN PromptOrder : PromptOrder[k] = prompt

\* The inputs were read in the order of the prompts, a prompt put again
\* being read again before the next one.
ReadInOrder ==
    /\ app.reads # <<>> => app.reads[1] = "id"
    /\ \A i \in 1..(Len(app.reads) - 1) :
           Rank(app.reads[i + 1]) - Rank(app.reads[i]) \in {0, 1}

\* The password was encoded only after the seven inputs were read, by the
\* manager selected, and the principal printed names that manager unless it
\* is Plain Text.
EncodedLast ==
    /\ call.op = "encodePassword"
           => /\ LastRead = "description"
              /\ app.pc \in {"done", "raised"}
              /\ call.m = app.managers[app.index + 1]
              /\ call.password = Str(app.password)
    /\ app.pc = "done"
           => /\ call.op = "encodePassword"
              /\ result.t = "bytes"
              /\ app.password_manager_name = app.managers[app.index + 1]
              /\ SubSeq(app.lines, 1, 4) = <<"id", "title", "login", "password">>
              /\ (app.lines[Len(app.lines)] = "password_manager")
                     <=> (app.password_manager_name # "Plain Text")

\* Once the password manager prompt is answered the selection stays.
SelectionKept ==
    app.pc \in {"password", "verify", "description"}
        => /\ app'.index = app.index
           /\ app'.password_manager_name = app.password_manager_name
           /\ app'.managers = app.managers

\* C28: get_principal reads its inputs in the order id, title, login,
\* password manager number, password, password verification, description;
\* the password is encoded only after all of them are read, by the manager
\* selected at the fourth step, and the principal printed carries that
\* manager's name, left out only for Plain Text.
C28_PromptOrder == [](ReadInOrder /\ EncodedLast) /\ [][SelectionKept]_vars

\* A principal was printed with the name of BCRYPTKDF, after eight reads of
\* which one was a prompt put again.
C28_Witness ==
    /\ app.pc = "done"
    /\ app.password_manager_name = "BCRYPTKDF"
    /\ app.lines = <<"id", "title", "login", "password", "description",
                     "password_manager">>
    /\ Len(app.reads) = 8
    /\ StartsWith(result.s, BCRYPTKDF_prefix)

\* C29: for SMD5, SSHA, MySQL, BCRYPT and BCRYPTKDF a checkPassword that
\* returns true implies a match that returns true: a value whose first
\* bytes are not the tag of the scheme (for BCRYPT the tag or the native
\* pattern) is never accepted, whatever follows.
C29_AcceptanceImpliesOwnership ==
    (/\ call.op = "checkPassword"
     /\ call.m \in {"SMD5", "SSHA", "MySQL", "BCRYPT", "BCRYPTKDF"}
     /\ IsTrue(result))
        => IsTrue(match(call.m, cred.v))

\* The rounds field of a BCRYPTKDF credential.
RoundsWritten(e) == IntOfHex(SplitDollar(From(e.s, Len(BCRYPTKDF_prefix)))[1])

\* C30: whatever another thread assigns to rounds or keylen while
\* encodePassword runs, the rounds written into the credential is the one
\* the call read once and derived the key with, and checkPassword of the
\* credential and its password is true.
C30_ConcurrentReconfiguration ==
    /\ (frame.pc = "returned" /\ cred.by = "BCRYPTKDF")
           => /\ RoundsWritten(cred.v) = frame.rounds
              /\ checkPassword("BCRYPTKDF", cred.v, cred.password, "token")
                     = Bool(TRUE)
    /\ (/\ call.op = "checkPassword"
        /\ cred.by = "BCRYPTKDF"
        /\ call.password = cred.password)
           => result = Bool(TRUE)

\* The credential checked true although rounds and keylen were both
\* assigned between the entry of encodePassword and its reads, and rounds
\* again afterwards.
C30_Witness ==
    /\ call.op = "checkPassword"
    /\ cred.by = "BCRYPTKDF"
    /\ call.password = cred.password
    /\ result = Bool(TRUE)
    /\ frame.pc = "returned"
    /\ frame.rounds # frame.entry[1]
    /\ frame.keylen # frame.entry[2]
    /\ rounds # frame.rounds

====
